---------------------------- MODULE Spec2Model ----------------------------
(***************************************************************************)
(* The Kazakh Cyrillic -> Arabic-script converter of src/cyr2arab.py       *)
(* (class CyrillicToArabicConverter) as a state machine, and split_text of *)
(* src/app.py, which cuts a text into chunks.                              *)
(*                                                                         *)
(* A Python str is modelled as a sequence of characters, and a character   *)
(* as a string that names it:                                              *)
(*   - a Cyrillic letter by its Latin transliteration, the capital letter  *)
(*     by the same name in capitals:                                       *)
(*       а a   б b   в v   г g   д d   е e   ж zh  з z   и i   й j   к k   *)
(*       л l   м m   н n   о o   п p   р r   с s   т t   у u   ф f   х h   *)
(*       ц c   ч ch  ш sh  щ shch  ъ hard  ы y  ь soft  э eh  ю yu  я ya   *)
(*       ё yo  ә ae  і ii  ң ng  ғ gh  ү ue  ұ uu  қ q   ө oe  һ hh        *)
(*   - an Arabic-script character by "ar_" and its Unicode name:           *)
(*       ا ar_alef  ب ar_beh  پ ar_peh  ت ar_teh  ج ar_jeem  چ ar_tcheh    *)
(*       ح ar_hah  د ar_dal  ر ar_reh  ز ar_zain  س ar_seen  ش ar_sheen    *)
(*       ع ar_ain  ف ar_feh  ق ar_qaf  ك ar_kaf  گ ar_gaf  ڭ ar_ng         *)
(*       ل ar_lam  م ar_meem  ن ar_noon  ھ ar_heh  ە ar_ae  و ar_waw       *)
(*       ۆ ar_oe  ۇ ar_u  ۋ ar_ve  ى ar_yi  ي ar_yeh  ٴ ar_hamza           *)
(*       ، ar_comma  ؛ ar_semicolon  ؟ ar_question                         *)
(*   - an ASCII punctuation mark, the space, the digit 1 and the           *)
(*     underscore by themselves; the Latin letters x and X by "lat_x" and  *)
(*     "LAT_X".                                                            *)
(* Positions in a sequence count from 1, where Python counts from 0.       *)
(***************************************************************************)
EXTENDS Integers, Sequences, FiniteSets, TLC

VARIABLES
  converter,   \* the shared CyrillicToArabicConverter object: its attributes
  call         \* the calls in progress on it: caller -> the call's local state

vars == <<converter, call>>

-----------------------------------------------------------------------------
(* Python's str and list operations, as the converter uses them.           *)

\* str.lower() on the letters of the run alphabet: the capital letters, in the
\* order of LowerLetters.  а б в г д е ж з и й к л м н о п р с т у ф х ц ч ш щ ъ ы ь э ю я ё ә і ң ғ ү ұ қ ө һ
LowerLetters ==
  <<"a", "b", "v", "g", "d", "e", "zh", "z", "i", "j", "k", "l", "m", "n", "o", "p", "r", "s",
    "t", "u", "f", "h", "c", "ch", "sh", "shch", "hard", "y", "soft", "eh", "yu", "ya", "yo",
    "ae", "ii", "ng", "gh", "ue", "uu", "q", "oe", "hh">>

\* А Б В Г Д Е Ж З И Й К Л М Н О П Р С Т У Ф Х Ц Ч Ш Щ Ъ Ы Ь Э Ю Я Ё Ә І Ң Ғ Ү Ұ Қ Ө Һ
UpperLetters ==
  <<"A", "B", "V", "G", "D", "E", "ZH", "Z", "I", "J", "K", "L", "M", "N", "O", "P", "R", "S",
    "T", "U", "F", "H", "C", "CH", "SH", "SHCH", "HARD", "Y", "SOFT", "EH", "YU", "YA", "YO",
    "AE", "II", "NG", "GH", "UE", "UU", "Q", "OE", "HH">>

Range(s) == {s[k] : k \in DOMAIN s}

\* The character class of the run pattern of convert:
\* [а-яәіңғүұқөһёэъьА-ЯӘІҢҒҮҰҚӨҺЁЭЪЬ]
RunLetters == Range(LowerLetters) \cup Range(UpperLetters)

\* str.lower() of one character.
ToLower ==
  [c \in Range(UpperLetters) |->
     LowerLetters[CHOOSE k \in DOMAIN UpperLetters : UpperLetters[k] = c]]
  @@ ("LAT_X" :> "lat_x")

lower_char(c) == IF c \in DOMAIN ToLower THEN ToLower[c] ELSE c

\* str.lower()
lower(s) == [k \in DOMAIN s |-> lower_char(s[k])]

\* str.isalpha() of one character.
isalpha(c) ==
  c \notin {",", ".", ":", ";", "?", "!", "-", " ", "_", "1",
            "ar_comma", "ar_semicolon", "ar_question"}

\* str.startswith(p), str.endswith(p)
startswith(s, p) == Len(p) <= Len(s) /\ SubSeq(s, 1, Len(p)) = p
endswith(s, p) == Len(p) <= Len(s) /\ SubSeq(s, Len(s) - Len(p) + 1, Len(s)) = p

\* str.replace(old, new), old not empty: the occurrences of old, found from
\* left to right and never overlapping, each replaced by new.
RECURSIVE replace(_, _, _)
replace(s, old, new) ==
  IF Len(s) < Len(old) THEN s
  ELSE IF SubSeq(s, 1, Len(old)) = old
       THEN new \o replace(SubSeq(s, Len(old) + 1, Len(s)), old, new)
       ELSE <<s[1]>> \o replace(Tail(s), old, new)

\* str.split(sep), sep one character.
RECURSIVE split(_, _)
split(s, sep) ==
  IF sep \notin Range(s) THEN <<s>>
  ELSE LET k == CHOOSE j \in DOMAIN s : s[j] = sep /\ \A h \in 1..(j - 1) : s[h] # sep
       IN  <<SubSeq(s, 1, k - 1)>> \o split(SubSeq(s, k + 1, Len(s)), sep)

\* sep.join(parts)
RECURSIVE join(_, _)
join(sep, parts) ==
  IF parts = <<>> THEN <<>>
  ELSE IF Len(parts) = 1 THEN parts[1]
  ELSE parts[1] \o sep \o join(sep, Tail(parts))

\* The exception a missing dictionary key raises (d[key]); no character has
\* this name, so no string equals it.
KeyError == <<"KeyError">>

-----------------------------------------------------------------------------
(* __init__: the lookup tables.                                            *)

HAMZA == "ar_hamza"   \* U+0674

\* self.PROPER_NOUNS
PROPER_NOUNS ==
  (<<"s", "i">> :> <<"ar_sheen", "ar_yeh">>) @@   \* си -> شي
  (<<"c", "z", "i", "n", "soft", "p", "i", "n">> :> <<"ar_jeem", "ar_yeh", "ar_noon", "ar_peh", "ar_yeh", "ar_ng">>) @@   \* цзиньпин -> جينپيڭ
  (<<"s", "i", " ", "c", "z", "i", "n", "soft", "p", "i", "n">> :> <<"ar_sheen", "ar_yeh", " ", "ar_jeem", "ar_yeh", "ar_noon", "ar_peh", "ar_yeh", "ar_ng">>) @@   \* си цзиньпин -> شي جينپيڭ
  (<<"l", "i", " ", "c", "ya", "n">> :> <<"ar_lam", "ar_yeh", " ", "ar_tcheh", "ar_yeh", "ar_alef", "ar_ng">>) @@   \* ли цян -> لي چياڭ
  (<<"l", "i">> :> <<"ar_lam", "ar_yeh">>) @@   \* ли -> لي
  (<<"c", "ya", "n">> :> <<"ar_tcheh", "ar_yeh", "ar_alef", "ar_ng">>) @@   \* цян -> چياڭ
  (<<"ch", "zh", "a", "o", " ", "l", "eh", "c", "z", "i">> :> <<"ar_jeem", "ar_alef", "ar_ve", " ", "ar_lam", "ar_yi", "ar_jeem", "ar_yeh">>) @@   \* чжао лэцзи -> جاۋ لىجي
  (<<"ch", "zh", "a", "o">> :> <<"ar_jeem", "ar_alef", "ar_ve">>) @@   \* чжао -> جاۋ
  (<<"l", "eh", "c", "z", "i">> :> <<"ar_lam", "ar_yi", "ar_jeem", "ar_yeh">>) @@   \* лэцзи -> لىجي
  (<<"v", "a", "n", " ", "h", "u", "n", "i", "n">> :> <<"ar_ve", "ar_alef", "ar_ng", " ", "ar_hah", "ar_ve", "ar_noon", "ar_yeh", "ar_ng">>) @@   \* ван хунин -> ۋاڭ حۋنيڭ
  (<<"v", "a", "n">> :> <<"ar_ve", "ar_alef", "ar_ng">>) @@   \* ван -> ۋاڭ
  (<<"h", "u", "n", "i", "n">> :> <<"ar_hah", "ar_ve", "ar_noon", "ar_yeh", "ar_ng">>) @@   \* хунин -> حۋنيڭ
  (<<"c", "a", "j", " ", "c", "i">> :> <<"ar_seen", "ar_alef", "ar_yeh", " ", "ar_tcheh", "ar_yeh">>) @@   \* цай ци -> ساي چي
  (<<"c", "a", "j">> :> <<"ar_seen", "ar_alef", "ar_yeh">>) @@   \* цай -> ساي
  (<<"c", "i">> :> <<"ar_tcheh", "ar_yeh">>) @@   \* ци -> چي
  (<<"d", "i", "n", " ", "s", "yu", "eh", "s", "ya", "n">> :> <<"ar_dal", "ar_yeh", "ar_ng", " ", "ar_sheen", "ar_ve", "ar_ae", "ar_sheen", "ar_yeh", "ar_alef", "ar_ng">>) @@   \* дин сюэсян -> ديڭ شۋەشياڭ
  (<<"d", "i", "n">> :> <<"ar_dal", "ar_yeh", "ar_ng">>) @@   \* дин -> ديڭ
  (<<"s", "yu", "eh", "s", "ya", "n">> :> <<"ar_sheen", "ar_ve", "ar_ae", "ar_sheen", "ar_yeh", "ar_alef", "ar_ng">>) @@   \* сюэсян -> شۋەشياڭ
  (<<"l", "i", " ", "s", "i">> :> <<"ar_lam", "ar_yeh", " ", "ar_sheen", "ar_yeh">>) @@   \* ли си -> لي شي
  (<<"sh", "u", "zh", "i">> :> <<"ar_sheen", "ar_ve", "ar_jeem", "ar_yeh">>) @@   \* шужи -> شۋجي
  (<<"q", "a", "z", "a", "q", "s", "t", "a", "n">> :> <<"ar_qaf", "ar_alef", "ar_zain", "ar_alef", "ar_qaf", "ar_seen", "ar_teh", "ar_alef", "ar_noon">>) @@   \* қазақстан -> قازاقستان
  (<<"a", "l", "m", "a", "t", "y">> :> <<"ar_alef", "ar_lam", "ar_meem", "ar_alef", "ar_teh", "ar_yi">>) @@   \* алматы -> الماتى
  (<<"a", "s", "t", "a", "n", "a">> :> <<"ar_alef", "ar_seen", "ar_teh", "ar_alef", "ar_noon", "ar_alef">>) @@   \* астана -> استانا
  (<<"sh", "y", "m", "k", "e", "n", "t">> :> <<"ar_sheen", "ar_yi", "ar_meem", "ar_kaf", "ar_ae", "ar_noon", "ar_teh">>) @@   \* шымкент -> شىمكەنت
  (<<"zh", "uu", "ng", "g", "o">> :> <<"ar_jeem", "ar_u", "ar_ng", "ar_gaf", "ar_waw">>) @@   \* жұңго -> جۇڭگو
  (<<"ch", "a", "n", "c", "z", "ya", "n">> :> <<"ar_tcheh", "ar_alef", "ar_ng", "ar_jeem", "ar_yeh", "ar_alef", "ar_ng">>) @@   \* чанцзян -> چاڭجياڭ
  (<<"ch", "a", "n", "c", "z", "ya", "n", "n", "y", "ng">> :> <<"ar_tcheh", "ar_alef", "ar_ng", "ar_jeem", "ar_yeh", "ar_alef", "ar_ng", "ar_noon", "ar_yi", "ar_ng">>) @@   \* чанцзянның -> چاڭجياڭنىڭ
  (<<"p", "e", "k", "i", "n">> :> <<"ar_beh", "ar_ae", "ar_yeh", "ar_jeem", "ar_yeh", "ar_ng">>) @@   \* пекин -> بەيجيڭ
  (<<"o", "r", "t", "a", "l", "y", "q", " ", "k", "o", "m", "i", "t", "e", "t">> :> <<"ar_waw", "ar_reh", "ar_teh", "ar_alef", "ar_lam", "ar_yi", "ar_qaf", " ", "ar_kaf", "ar_waw", "ar_meem", "ar_yeh", "ar_teh", "ar_ae", "ar_teh">>)   \* орталық комитет -> ورتالىق كوميتەت

\* self.COMMON_WORDS
COMMON_WORDS ==
  (<<"s", "oe", "z">> :> <<"ar_hamza", "ar_seen", "ar_waw", "ar_zain">>) @@   \* сөз -> ٴسوز
  (<<"b", "ii", "z", "d", "ii", "ng">> :> <<"ar_hamza", "ar_beh", "ar_yi", "ar_zain", "ar_dal", "ar_yi", "ar_ng">>) @@   \* біздің -> ٴبىزدىڭ
  (<<"o", "t", "a", "n", "y", "m", "y", "z">> :> <<"ar_waw", "ar_teh", "ar_alef", "ar_noon", "ar_yi", "ar_meem", "ar_yi", "ar_zain">>) @@   \* отанымыз -> وتانىمىز
  (<<"oe", "t", "e">> :> <<"ar_hamza", "ar_waw", "ar_teh", "ar_ae">>) @@   \* өте -> ٴوتە
  (<<"k", "oe", "r", "ii", "k", "t", "ii">> :> <<"ar_kaf", "ar_waw", "ar_reh", "ar_yi", "ar_kaf", "ar_teh", "ar_yi">>) @@   \* көрікті -> كورىكتى
  (<<"oe", "m", "ii", "r", "ii", "m", "ii", "z", "d", "ii">> :> <<"ar_waw", "ar_meem", "ar_yi", "ar_reh", "ar_yi", "ar_meem", "ar_yi", "ar_zain", "ar_dal", "ar_yi">>) @@   \* өмірімізді -> ومىرىمىزدى
  (<<"oe", "z", "g", "e", "r", "t", "e", "d", "ii">> :> <<"ar_waw", "ar_zain", "ar_gaf", "ar_ae", "ar_reh", "ar_teh", "ar_ae", "ar_dal", "ar_yi">>) @@   \* өзгертеді -> وزگەرتەدى
  (<<"b", "ii", "l", "ii", "m">> :> <<"ar_hamza", "ar_beh", "ar_yi", "ar_lam", "ar_yi", "ar_meem">>) @@   \* білім -> ٴبىلىم
  (<<"m", "e", "n">> :> <<"ar_meem", "ar_ae", "ar_noon">>) @@   \* мен -> مەن
  (<<"gh", "y", "l", "y", "m">> :> <<"ar_ain", "ar_yi", "ar_lam", "ar_yi", "ar_meem">>) @@   \* ғылым -> عىلىم
  (<<"d", "a", "m", "u", "d", "y", "ng">> :> <<"ar_dal", "ar_alef", "ar_meem", "ar_ve", "ar_dal", "ar_yi", "ar_ng">>) @@   \* дамудың -> دامۋدىڭ
  (<<"k", "ii", "l", "t", "ii">> :> <<"ar_kaf", "ar_yi", "ar_lam", "ar_teh", "ar_yi">>) @@   \* кілті -> كىلتى
  (<<"b", "ii", "r">> :> <<"ar_hamza", "ar_beh", "ar_yi", "ar_reh">>) @@   \* бір -> ٴبىر
  (<<"ae", "r">> :> <<"ar_hamza", "ar_alef", "ar_reh">>) @@   \* әр -> ٴار
  (<<"ii", "s">> :> <<"ar_hamza", "ar_yi", "ar_seen">>) @@   \* іс -> ٴىس
  (<<"oe", "z">> :> <<"ar_hamza", "ar_waw", "ar_zain">>) @@   \* өз -> ٴوز
  (<<"ue", "sh", "ii", "n">> :> <<"ar_hamza", "ar_u", "ar_sheen", "ar_yi", "ar_noon">>) @@   \* үшін -> ٴۇشىن
  (<<"t", "ii", "l">> :> <<"ar_hamza", "ar_teh", "ar_yi", "ar_lam">>) @@   \* тіл -> ٴتىل
  (<<"oe", "m", "ii", "r">> :> <<"ar_hamza", "ar_waw", "ar_meem", "ar_yi", "ar_reh">>) @@   \* өмір -> ٴومىر
  (<<"ae", "n", "sh", "ii">> :> <<"ar_hamza", "ar_alef", "ar_noon", "ar_sheen", "ar_yi">>) @@   \* әнші -> ٴانشى
  (<<"b", "a", "s", "p", "a", "s", "oe", "z">> :> <<"ar_beh", "ar_alef", "ar_seen", "ar_peh", "ar_alef", "ar_seen", "ar_waw", "ar_zain">>) @@   \* баспасөз -> باسپاسوز
  (<<"e", "m", "h", "a", "n", "a">> :> <<"ar_ae", "ar_meem", "ar_hah", "ar_alef", "ar_noon", "ar_alef">>) @@   \* емхана -> ەمحانا
  (<<"oe", "n", "e", "r", "p", "a", "z">> :> <<"ar_hamza", "ar_waw", "ar_noon", "ar_ae", "ar_reh", "ar_peh", "ar_alef", "ar_zain">>) @@   \* өнерпаз -> ٴونەرپاز
  (<<"e", "ng", "b", "e", "k", "q", "o", "r">> :> <<"ar_ae", "ar_ng", "ar_beh", "ar_ae", "ar_kaf", "ar_qaf", "ar_waw", "ar_reh">>) @@   \* еңбекқор -> ەڭبەكقور
  (<<"a", "r", "b", "a", "k", "e", "sh">> :> <<"ar_alef", "ar_reh", "ar_beh", "ar_alef", "ar_kaf", "ar_ae", "ar_sheen">>) @@   \* арбакеш -> ارباكەش
  (<<"t", "a", "l", "a", "p", "k", "e", "r">> :> <<"ar_teh", "ar_alef", "ar_lam", "ar_alef", "ar_peh", "ar_kaf", "ar_ae", "ar_reh">>) @@   \* талапкер -> تالاپكەر
  (<<"s", "u", "r", "e", "t", "sh", "ii">> :> <<"ar_seen", "ar_ve", "ar_reh", "ar_ae", "ar_teh", "ar_sheen", "ar_yi">>) @@   \* суретші -> سۋرەتشى
  (<<"zh", "a", "u", "y", "n", "g", "e", "r">> :> <<"ar_jeem", "ar_alef", "ar_ve", "ar_yi", "ar_noon", "ar_gaf", "ar_ae", "ar_reh">>) @@   \* жауынгер -> جاۋىنگەر
  (<<"b", "yu", "d", "zh", "e", "t">> :> <<"ar_beh", "ar_ve", "ar_dal", "ar_jeem", "ar_ae", "ar_teh">>) @@   \* бюджет -> بۋدجەت
  (<<"d", "i", "a", "g", "n", "o", "z">> :> <<"ar_dal", "ar_yi", "ar_yeh", "ar_alef", "ar_gaf", "ar_noon", "ar_waw", "ar_zain">>) @@   \* диагноз -> دىياگنوز
  (<<"t", "o", "k", "i", "o">> :> <<"ar_teh", "ar_waw", "ar_kaf", "ar_yi", "ar_yeh", "ar_waw">>) @@   \* токио -> توكىيو
  (<<"t", "i", "ii", "s", "ii", "n", "sh", "e">> :> <<"ar_teh", "ar_yi", "ar_yeh", "ar_yi", "ar_seen", "ar_yi", "ar_noon", "ar_sheen", "ar_ae">>) @@   \* тиісінше -> تىيىسىنشە
  (<<"b", "ii", "r", "a", "q">> :> <<"ar_beh", "ar_yi", "ar_reh", "ar_alef", "ar_qaf">>) @@   \* бірақ -> بىراق
  (<<"d", "ae", "r", "ii", "h", "a", "n", "a">> :> <<"ar_dal", "ar_alef", "ar_reh", "ar_yi", "ar_hah", "ar_alef", "ar_noon", "ar_alef">>) @@   \* дәріхана -> دارىحانا
  (<<"s", "i", "ya", "z">> :> <<"ar_seen", "ar_yi", "ar_yeh", "ar_ae", "ar_zain">>) @@   \* сияз -> سىيەز
  (<<"q", "i", "ya", "r">> :> <<"ar_qaf", "ar_yi", "ar_yeh", "ar_alef", "ar_reh">>) @@   \* қияр -> قىيار
  (<<"eh", "k", "o", "l", "o", "g", "i", "ya", "l", "y", "q">> :> <<"ar_ae", "ar_kaf", "ar_waw", "ar_lam", "ar_waw", "ar_gaf", "ar_yi", "ar_yeh", "ar_alef", "ar_lam", "ar_yi", "ar_qaf">>) @@   \* экологиялық -> ەكولوگىيالىق
  (<<"n", "soft", "yu", "-", "j", "o", "r", "k">> :> <<"ar_noon", "ar_yi", "ar_yeh", "ar_ve", "-", "ar_yeh", "ar_waw", "ar_reh", "ar_kaf">>)   \* нью-йорк -> نىيۋ-يورك

\* self.LOANWORD_CONSONANTS: ф Ф в В ц Ц ч Ч
\* LOANWORD_CONSONANTS without the capitals.
LOANWORD_CONSONANTS_LowerOnly == {"f", "v", "c", "ch"}

LOANWORD_CONSONANTS ==
  {"f", "F", "v", "V", "c", "C", "ch", "CH"}

\* self.LOANWORD_SUFFIXES (a list, in its order): ция сия ия ология графия логия ика изм
LOANWORD_SUFFIXES ==
  <<<<"c", "i", "ya">>,
    <<"s", "i", "ya">>,
    <<"i", "ya">>,
    <<"o", "l", "o", "g", "i", "ya">>,
    <<"g", "r", "a", "f", "i", "ya">>,
    <<"l", "o", "g", "i", "ya">>,
    <<"i", "k", "a">>,
    <<"i", "z", "m">>>>

\* self.I_INITIAL_NATIVE_WORDS: иіс ине ит ию иір иіл ирі иық ин
I_INITIAL_NATIVE_WORDS ==
  {<<"i", "ii", "s">>,
   <<"i", "n", "e">>,
   <<"i", "t">>,
   <<"i", "yu">>,
   <<"i", "ii", "r">>,
   <<"i", "ii", "l">>,
   <<"i", "r", "ii">>,
   <<"i", "y", "q">>,
   <<"i", "n">>}

\* self.SOFT_PREFIXES_WITH_HARD_ROOT (a dict; its keys in insertion order): бес екі жеті сегіз тоғыз
SOFT_PREFIXES_WITH_HARD_ROOT ==
  <<<<"b", "e", "s">>,
    <<"e", "k", "ii">>,
    <<"zh", "e", "t", "ii">>,
    <<"s", "e", "g", "ii", "z">>,
    <<"t", "o", "gh", "y", "z">>>>

\* self.CONSONANTS
CONSONANTS ==
  ("b" :> <<"ar_beh">>) @@   \* б -> ب
  ("B" :> <<"ar_beh">>) @@   \* Б -> ب
  ("v" :> <<"ar_oe">>) @@   \* в -> ۆ
  ("V" :> <<"ar_oe">>) @@   \* В -> ۆ
  ("g" :> <<"ar_gaf">>) @@   \* г -> گ
  ("G" :> <<"ar_gaf">>) @@   \* Г -> گ
  ("gh" :> <<"ar_ain">>) @@   \* ғ -> ع
  ("GH" :> <<"ar_ain">>) @@   \* Ғ -> ع
  ("d" :> <<"ar_dal">>) @@   \* д -> د
  ("D" :> <<"ar_dal">>) @@   \* Д -> د
  ("zh" :> <<"ar_jeem">>) @@   \* ж -> ج
  ("ZH" :> <<"ar_jeem">>) @@   \* Ж -> ج
  ("z" :> <<"ar_zain">>) @@   \* з -> ز
  ("Z" :> <<"ar_zain">>) @@   \* З -> ز
  ("j" :> <<"ar_yeh">>) @@   \* й -> ي
  ("J" :> <<"ar_yeh">>) @@   \* Й -> ي
  ("k" :> <<"ar_kaf">>) @@   \* к -> ك
  ("K" :> <<"ar_kaf">>) @@   \* К -> ك
  ("q" :> <<"ar_qaf">>) @@   \* қ -> ق
  ("Q" :> <<"ar_qaf">>) @@   \* Қ -> ق
  ("l" :> <<"ar_lam">>) @@   \* л -> ل
  ("L" :> <<"ar_lam">>) @@   \* Л -> ل
  ("m" :> <<"ar_meem">>) @@   \* м -> م
  ("M" :> <<"ar_meem">>) @@   \* М -> م
  ("n" :> <<"ar_noon">>) @@   \* н -> ن
  ("N" :> <<"ar_noon">>) @@   \* Н -> ن
  ("ng" :> <<"ar_ng">>) @@   \* ң -> ڭ
  ("NG" :> <<"ar_ng">>) @@   \* Ң -> ڭ
  ("p" :> <<"ar_peh">>) @@   \* п -> پ
  ("P" :> <<"ar_peh">>) @@   \* П -> پ
  ("r" :> <<"ar_reh">>) @@   \* р -> ر
  ("R" :> <<"ar_reh">>) @@   \* Р -> ر
  ("s" :> <<"ar_seen">>) @@   \* с -> س
  ("S" :> <<"ar_seen">>) @@   \* С -> س
  ("t" :> <<"ar_teh">>) @@   \* т -> ت
  ("T" :> <<"ar_teh">>) @@   \* Т -> ت
  ("f" :> <<"ar_feh">>) @@   \* ф -> ف
  ("F" :> <<"ar_feh">>) @@   \* Ф -> ف
  ("h" :> <<"ar_hah">>) @@   \* х -> ح
  ("H" :> <<"ar_hah">>) @@   \* Х -> ح
  ("hh" :> <<"ar_heh">>) @@   \* һ -> ھ
  ("HH" :> <<"ar_heh">>) @@   \* Һ -> ھ
  ("ch" :> <<"ar_tcheh">>) @@   \* ч -> چ
  ("CH" :> <<"ar_tcheh">>) @@   \* Ч -> چ
  ("sh" :> <<"ar_sheen">>) @@   \* ш -> ش
  ("SH" :> <<"ar_sheen">>)   \* Ш -> ش

\* self.VOWELS
\* VOWELS without the keys in capitals.
VOWELS_NoCapitals ==
  ("a" :> <<"ar_alef">>) @@ ("ae" :> <<"ar_alef">>) @@ ("e" :> <<"ar_ae">>) @@
  ("o" :> <<"ar_waw">>) @@ ("oe" :> <<"ar_waw">>) @@ ("u" :> <<"ar_ve">>) @@
  ("uu" :> <<"ar_u">>) @@ ("ue" :> <<"ar_u">>) @@ ("y" :> <<"ar_yi">>) @@
  ("ii" :> <<"ar_yi">>) @@ ("eh" :> <<"ar_ae">>)

VOWELS ==
  ("a" :> <<"ar_alef">>) @@   \* а -> ا
  ("A" :> <<"ar_alef">>) @@   \* А -> ا
  ("ae" :> <<"ar_alef">>) @@   \* ә -> ا
  ("AE" :> <<"ar_alef">>) @@   \* Ә -> ا
  ("e" :> <<"ar_ae">>) @@   \* е -> ە
  ("E" :> <<"ar_ae">>) @@   \* Е -> ە
  ("o" :> <<"ar_waw">>) @@   \* о -> و
  ("O" :> <<"ar_waw">>) @@   \* О -> و
  ("oe" :> <<"ar_waw">>) @@   \* ө -> و
  ("OE" :> <<"ar_waw">>) @@   \* Ө -> و
  ("u" :> <<"ar_ve">>) @@   \* у -> ۋ
  ("U" :> <<"ar_ve">>) @@   \* У -> ۋ
  ("uu" :> <<"ar_u">>) @@   \* ұ -> ۇ
  ("UU" :> <<"ar_u">>) @@   \* Ұ -> ۇ
  ("ue" :> <<"ar_u">>) @@   \* ү -> ۇ
  ("UE" :> <<"ar_u">>) @@   \* Ү -> ۇ
  ("y" :> <<"ar_yi">>) @@   \* ы -> ى
  ("Y" :> <<"ar_yi">>) @@   \* Ы -> ى
  ("ii" :> <<"ar_yi">>) @@   \* і -> ى
  ("II" :> <<"ar_yi">>) @@   \* І -> ى
  ("eh" :> <<"ar_ae">>) @@   \* э -> ە
  ("EH" :> <<"ar_ae">>)   \* Э -> ە

\* COMBINATIONS without the key щ.
COMBINATIONS_NoShcha ==
  ("c" :> <<"ar_teh", "ar_seen">>) @@ ("C" :> <<"ar_teh", "ar_seen">>) @@
  ("yu" :> <<"ar_yeh", "ar_ve">>) @@ ("YU" :> <<"ar_yeh", "ar_ve">>) @@
  ("ya" :> <<"ar_yeh", "ar_alef">>) @@ ("YA" :> <<"ar_yeh", "ar_alef">>) @@
  ("yo" :> <<"ar_yeh", "ar_waw">>) @@ ("YO" :> <<"ar_yeh", "ar_waw">>)

\* self.COMBINATIONS
COMBINATIONS ==
  ("c" :> <<"ar_teh", "ar_seen">>) @@   \* ц -> تس
  ("C" :> <<"ar_teh", "ar_seen">>) @@   \* Ц -> تس
  ("shch" :> <<"ar_sheen", "ar_sheen">>) @@   \* щ -> شش
  ("SHCH" :> <<"ar_sheen", "ar_sheen">>) @@   \* Щ -> شش
  ("yu" :> <<"ar_yeh", "ar_ve">>) @@   \* ю -> يۋ
  ("YU" :> <<"ar_yeh", "ar_ve">>) @@   \* Ю -> يۋ
  ("ya" :> <<"ar_yeh", "ar_alef">>) @@   \* я -> يا
  ("YA" :> <<"ar_yeh", "ar_alef">>) @@   \* Я -> يا
  ("yo" :> <<"ar_yeh", "ar_waw">>) @@   \* ё -> يو
  ("YO" :> <<"ar_yeh", "ar_waw">>)   \* Ё -> يو

\* self.FRONT_VOWELS: ә Ә е Е і І ө Ө ү Ү
FRONT_VOWELS ==
  {"ae", "AE", "e", "E", "ii", "II", "oe", "OE", "ue", "UE"}

\* self.BACK_VOWELS: а А о О ұ Ұ ы Ы у У
BACK_VOWELS ==
  {"a", "A", "o", "O", "uu", "UU", "y", "Y", "u", "U"}

\* self.ALL_VOWELS = FRONT_VOWELS | BACK_VOWELS | {и И э Э ю Ю я Я ё Ё}
ALL_VOWELS ==
  FRONT_VOWELS \cup BACK_VOWELS \cup {"i", "I", "eh", "EH", "yu", "YU", "ya", "YA", "yo", "YO"}

\* self.HAMZA_SIGNAL_ARABIC
HAMZA_SIGNAL_ARABIC ==
  {"ar_kaf", "ar_gaf", "ar_ae"}

\* self.HAMZA_SIGNAL_CYRILLIC: к К г Г е Е
HAMZA_SIGNAL_CYRILLIC ==
  {"k", "K", "g", "G", "e", "E"}

\* PUNCTUATION with the full stop mapped to the comma.
PUNCTUATION_PeriodToComma ==
  <<<<",", "ar_comma">>, <<".", ",">>, <<":", ":">>, <<";", "ar_semicolon">>,
    <<"?", "ar_question">>, <<"!", "!">>>>

\* PUNCTUATION with the semicolon mapped to itself.
PUNCTUATION_SemicolonKept ==
  <<<<",", "ar_comma">>, <<".", ".">>, <<":", ":">>, <<";", ";">>,
    <<"?", "ar_question">>, <<"!", "!">>>>

\* self.PUNCTUATION (a dict; its items in insertion order)
PUNCTUATION ==
  <<<<",", "ar_comma">>,
    <<".", ".">>,
    <<":", ":">>,
    <<";", "ar_semicolon">>,
    <<"?", "ar_question">>,
    <<"!", "!">>>>

\* The object __init__ builds: one field per attribute.
CyrillicToArabicConverter ==
  [HAMZA |-> HAMZA,
   PROPER_NOUNS |-> PROPER_NOUNS,
   COMMON_WORDS |-> COMMON_WORDS,
   LOANWORD_CONSONANTS |-> LOANWORD_CONSONANTS,
   LOANWORD_SUFFIXES |-> LOANWORD_SUFFIXES,
   I_INITIAL_NATIVE_WORDS |-> I_INITIAL_NATIVE_WORDS,
   SOFT_PREFIXES_WITH_HARD_ROOT |-> SOFT_PREFIXES_WITH_HARD_ROOT,
   CONSONANTS |-> CONSONANTS,
   VOWELS |-> VOWELS,
   COMBINATIONS |-> COMBINATIONS,
   FRONT_VOWELS |-> FRONT_VOWELS,
   BACK_VOWELS |-> BACK_VOWELS,
   ALL_VOWELS |-> ALL_VOWELS,
   HAMZA_SIGNAL_ARABIC |-> HAMZA_SIGNAL_ARABIC,
   HAMZA_SIGNAL_CYRILLIC |-> HAMZA_SIGNAL_CYRILLIC,
   PUNCTUATION |-> PUNCTUATION]

-----------------------------------------------------------------------------
(* The word classifier.                                                    *)

\* The loop "for char in s: if char in FRONT_VOWELS: return 'front' elif char
\* in BACK_VOWELS: return 'back'" of get_initial_harmony; "none" when the
\* loop ends without returning.
first_vowel(self, s) ==
  LET ks == {k \in DOMAIN s : s[k] \in self.FRONT_VOWELS \cup self.BACK_VOWELS}
  IN  IF ks = {} THEN "none"
      ELSE LET m == CHOOSE k \in ks : \A j \in ks : k <= j
           IN  IF s[m] \in self.FRONT_VOWELS THEN "front" ELSE "back"

\* The loop over SOFT_PREFIXES_WITH_HARD_ROOT of get_initial_harmony, from
\* its n-th prefix on: the class of the first root that has a vowel.
RECURSIVE prefix_harmony(_, _, _)
prefix_harmony(self, word_lower, n) ==
  IF n > Len(self.SOFT_PREFIXES_WITH_HARD_ROOT) THEN "none"
  ELSE LET prefix == self.SOFT_PREFIXES_WITH_HARD_ROOT[n]
           root == SubSeq(word_lower, Len(prefix) + 1, Len(word_lower))
       IN  IF startswith(word_lower, prefix) /\ Len(word_lower) > Len(prefix)
              /\ first_vowel(self, root) # "none"
           THEN first_vowel(self, root)
           ELSE prefix_harmony(self, word_lower, n + 1)

\* get_initial_harmony without the strong-consonant signals: the first vowel
\* decides.
get_initial_harmony_VowelFirst(self, word) ==
  LET word_lower == lower(word)
  IN  IF word_lower \in self.I_INITIAL_NATIVE_WORDS THEN "front"
      ELSE IF prefix_harmony(self, word_lower, 1) # "none"
           THEN prefix_harmony(self, word_lower, 1)
      ELSE IF first_vowel(self, word_lower) # "none"
           THEN first_vowel(self, word_lower)
      ELSE "back"

\* get_initial_harmony with the test for к/г before the test for қ/ғ.
get_initial_harmony_FrontFirst(self, word) ==
  LET word_lower == lower(word)
  IN  IF \E k \in DOMAIN word_lower : word_lower[k] \in {"k", "g"} THEN "front"
      ELSE IF \E k \in DOMAIN word_lower : word_lower[k] \in {"q", "gh"} THEN "back"
      ELSE IF word_lower \in self.I_INITIAL_NATIVE_WORDS THEN "front"
      ELSE IF prefix_harmony(self, word_lower, 1) # "none"
           THEN prefix_harmony(self, word_lower, 1)
      ELSE IF first_vowel(self, word_lower) # "none"
           THEN first_vowel(self, word_lower)
      ELSE "back"

get_initial_harmony(self, word) ==
  LET word_lower == lower(word)
  IN  IF \E k \in DOMAIN word_lower : word_lower[k] \in {"q", "gh"} THEN "back"
      ELSE IF \E k \in DOMAIN word_lower : word_lower[k] \in {"k", "g"} THEN "front"
      ELSE IF word_lower \in self.I_INITIAL_NATIVE_WORDS THEN "front"
      ELSE IF prefix_harmony(self, word_lower, 1) # "none"
           THEN prefix_harmony(self, word_lower, 1)
      ELSE IF first_vowel(self, word_lower) # "none"
           THEN first_vowel(self, word_lower)
      ELSE "back"

is_i_initial_native(self, word) == lower(word) \in self.I_INITIAL_NATIVE_WORDS

\* The character class [аәеоөұүіыиэ] of the vowel-cluster search.
HiatusVowels == {"a", "ae", "e", "o", "oe", "uu", "ue", "ii", "y", "i", "eh"}

\* vowels = set('аәеоөұүіыиэуюяё') of the consonant-cluster loop.
ClusterVowels == HiatusVowels \cup {"u", "yu", "ya", "yo"}

\* The consonant-cluster loop of is_loanword from position k on, with
\* consonant_count consonants counted so far.
RECURSIVE consonant_cluster(_, _, _)
consonant_cluster(word_lower, k, consonant_count) ==
  IF k > Len(word_lower) THEN FALSE
  ELSE IF isalpha(word_lower[k]) /\ word_lower[k] \notin ClusterVowels
       THEN IF consonant_count + 1 >= 3 THEN TRUE
            ELSE consonant_cluster(word_lower, k + 1, consonant_count + 1)
       ELSE consonant_cluster(word_lower, k + 1, 0)

\* is_loanword without the exclusion of the i-initial-native words.
is_loanword_NoNativeExclusion(self, word) ==
  LET word_lower == lower(word)
      temp_word == replace(replace(word_lower, <<"i", "ii">>, <<"_">>),
                           <<"ii", "i">>, <<"_">>)
  IN  IF \E k \in DOMAIN word : word[k] \in self.LOANWORD_CONSONANTS THEN TRUE
      ELSE IF \E n \in DOMAIN self.LOANWORD_SUFFIXES :
                 endswith(word_lower, self.LOANWORD_SUFFIXES[n]) THEN TRUE
      ELSE IF \E k \in 1..(Len(temp_word) - 1) :
                 temp_word[k] \in HiatusVowels /\ temp_word[k + 1] \in HiatusVowels
           THEN TRUE
      ELSE consonant_cluster(word_lower, 1, 0)

\* is_loanword without the search for a vowel cluster.
is_loanword_NoHiatus(self, word) ==
  LET word_lower == lower(word)
  IN  IF word_lower \in self.I_INITIAL_NATIVE_WORDS THEN FALSE
      ELSE IF \E k \in DOMAIN word : word[k] \in self.LOANWORD_CONSONANTS THEN TRUE
      ELSE IF \E n \in DOMAIN self.LOANWORD_SUFFIXES :
                 endswith(word_lower, self.LOANWORD_SUFFIXES[n]) THEN TRUE
      ELSE consonant_cluster(word_lower, 1, 0)

is_loanword(self, word) ==
  LET word_lower == lower(word)
      temp_word == replace(replace(word_lower, <<"i", "ii">>, <<"_">>),
                           <<"ii", "i">>, <<"_">>)
  IN  IF word_lower \in self.I_INITIAL_NATIVE_WORDS THEN FALSE
      ELSE IF \E k \in DOMAIN word : word[k] \in self.LOANWORD_CONSONANTS THEN TRUE
      ELSE IF \E n \in DOMAIN self.LOANWORD_SUFFIXES :
                 endswith(word_lower, self.LOANWORD_SUFFIXES[n]) THEN TRUE
      ELSE IF \E k \in 1..(Len(temp_word) - 1) :
                 temp_word[k] \in HiatusVowels /\ temp_word[k + 1] \in HiatusVowels
           THEN TRUE
      ELSE consonant_cluster(word_lower, 1, 0)

-----------------------------------------------------------------------------
(* The glottal-marker post-processor.                                      *)

\* arabic_word.replace(self.HAMZA, '')
strip_hamza(self, arabic_word) == replace(arabic_word, <<self.HAMZA>>, <<>>)

\* prefix_hamza without the startswith test.
prefix_hamza_Always(self, arabic_word) == <<self.HAMZA>> \o arabic_word

\* prefix_hamza with the marker put after the word.
prefix_hamza_Suffix(self, arabic_word) ==
  IF ~startswith(arabic_word, <<self.HAMZA>>) THEN arabic_word \o <<self.HAMZA>>
  ELSE arabic_word

\* "if not arabic_word.startswith(self.HAMZA): return self.HAMZA + arabic_word;
\*  return arabic_word"
prefix_hamza(self, arabic_word) ==
  IF ~startswith(arabic_word, <<self.HAMZA>>) THEN <<self.HAMZA>> \o arabic_word
  ELSE arabic_word

\* apply_hamza_rule with the loanword rule after the rules on the first
\* letter instead of before them.
apply_hamza_rule_LoanwordLast(self, arabic_word, word) ==
  LET word_lower == lower(word)
      has_k_or_g == \E k \in DOMAIN word : word[k] \in {"k", "K", "g", "G"}
      has_e == "e" \in Range(word_lower) \/ "E" \in Range(word)
      initial_harmony == get_initial_harmony(self, word)
  IN  IF is_i_initial_native(self, word) THEN prefix_hamza(self, arabic_word)
      ELSE IF has_k_or_g THEN strip_hamza(self, arabic_word)
      ELSE IF word_lower # <<>> /\ word_lower[1] \in {"oe", "ue", "ii"}
           THEN prefix_hamza(self, arabic_word)
      ELSE IF is_loanword(self, word) \/ has_e THEN strip_hamza(self, arabic_word)
      ELSE IF initial_harmony = "back" THEN strip_hamza(self, arabic_word)
      ELSE prefix_hamza(self, arabic_word)

\* apply_hamza_rule with the harmony class deciding right after the
\* loanword and the i-initial-native rules.
apply_hamza_rule_HarmonyFirst(self, arabic_word, word) ==
  LET initial_harmony == get_initial_harmony(self, word)
  IN  IF is_loanword(self, word) THEN strip_hamza(self, arabic_word)
      ELSE IF is_i_initial_native(self, word) THEN prefix_hamza(self, arabic_word)
      ELSE IF initial_harmony = "back" THEN strip_hamza(self, arabic_word)
      ELSE prefix_hamza(self, arabic_word)

\* apply_hamza_rule with the scan for к/г after the rules on the first
\* letter instead of before them.
apply_hamza_rule_SignalLast(self, arabic_word, word) ==
  LET word_lower == lower(word)
      has_k_or_g == \E k \in DOMAIN word : word[k] \in {"k", "K", "g", "G"}
      has_e == "e" \in Range(word_lower) \/ "E" \in Range(word)
      initial_harmony == get_initial_harmony(self, word)
  IN  IF is_loanword(self, word) THEN strip_hamza(self, arabic_word)
      ELSE IF is_i_initial_native(self, word) THEN prefix_hamza(self, arabic_word)
      ELSE IF word_lower # <<>> /\ word_lower[1] \in {"oe", "ue", "ii"}
           THEN prefix_hamza(self, arabic_word)
      ELSE IF has_k_or_g \/ has_e THEN strip_hamza(self, arabic_word)
      ELSE IF initial_harmony = "back" THEN strip_hamza(self, arabic_word)
      ELSE prefix_hamza(self, arabic_word)

\* apply_hamza_rule without the rule on е: the harmony class decides for
\* every word that does not begin with ө, ү or і.
apply_hamza_rule_NoESignal(self, arabic_word, word) ==
  LET word_lower == lower(word)
      has_k_or_g == \E k \in DOMAIN word : word[k] \in {"k", "K", "g", "G"}
      initial_harmony == get_initial_harmony(self, word)
  IN  IF is_loanword(self, word) THEN strip_hamza(self, arabic_word)
      ELSE IF is_i_initial_native(self, word) THEN prefix_hamza(self, arabic_word)
      ELSE IF has_k_or_g THEN strip_hamza(self, arabic_word)
      ELSE IF word_lower # <<>> /\ word_lower[1] \in {"oe", "ue", "ii"}
           THEN prefix_hamza(self, arabic_word)
      ELSE IF initial_harmony = "back" THEN strip_hamza(self, arabic_word)
      ELSE prefix_hamza(self, arabic_word)

apply_hamza_rule(self, arabic_word, word) ==
  LET word_lower == lower(word)
      has_k_or_g == \E k \in DOMAIN word : word[k] \in {"k", "K", "g", "G"}
      has_e == "e" \in Range(word_lower) \/ "E" \in Range(word)
      initial_harmony == get_initial_harmony(self, word)
  IN  IF is_loanword(self, word) THEN strip_hamza(self, arabic_word)
      ELSE IF is_i_initial_native(self, word) THEN prefix_hamza(self, arabic_word)
      ELSE IF has_k_or_g THEN strip_hamza(self, arabic_word)
      ELSE IF has_e
           THEN IF word_lower # <<>> /\ word_lower[1] \in {"oe", "ue", "ii"}
                THEN prefix_hamza(self, arabic_word)
                ELSE strip_hamza(self, arabic_word)
      ELSE IF word_lower # <<>> /\ word_lower[1] \in {"oe", "ue", "ii"}
           THEN prefix_hamza(self, arabic_word)
      ELSE IF initial_harmony = "back" THEN strip_hamza(self, arabic_word)
      ELSE IF initial_harmony = "front" THEN prefix_hamza(self, arabic_word)
      ELSE arabic_word

-----------------------------------------------------------------------------
(* The character transcriber and the word pipeline.                        *)

\* scan_char with и rendered by the harmony class of the word: ىي in a
\* front word, ي in a back word.
scan_char_HarmonyI(self, word, i, loanword) ==
  LET char == word[i]
      char_lower == lower_char(char)
  IN  IF char_lower \in {"soft", "hard"} THEN <<>>
      ELSE IF char_lower = "yu"
           THEN IF loanword THEN <<"ar_ve">> ELSE <<"ar_yeh", "ar_ve">>
      ELSE IF char_lower \in {"c", "shch", "yo"}
           THEN IF char_lower \in DOMAIN self.COMBINATIONS
                THEN self.COMBINATIONS[char_lower]
                ELSE KeyError
      ELSE IF char_lower = "ya"
           THEN IF i > 1 /\ lower_char(word[i - 1]) = "i"
                THEN <<"ar_alef">>
                ELSE <<"ar_yeh", "ar_alef">>
      ELSE IF char_lower = "i"
           THEN IF get_initial_harmony(self, word) = "front"
                THEN <<"ar_yi", "ar_yeh">> ELSE <<"ar_yeh">>
      ELSE IF char \in DOMAIN self.CONSONANTS THEN self.CONSONANTS[char]
      ELSE IF char \in DOMAIN self.VOWELS THEN self.VOWELS[char]
      ELSE <<char>>

\* One pass of the while loop of convert_word at position i: what it appends
\* to result, or KeyError where a table lookup misses.
scan_char(self, word, i, loanword) ==
  LET char == word[i]
      char_lower == lower_char(char)
  IN  IF char_lower \in {"soft", "hard"} THEN <<>>
      ELSE IF char_lower = "yu"
           THEN IF loanword THEN <<"ar_ve">> ELSE <<"ar_yeh", "ar_ve">>
      ELSE IF char_lower \in {"c", "shch", "yo"}
           THEN IF char_lower \in DOMAIN self.COMBINATIONS
                THEN self.COMBINATIONS[char_lower]
                ELSE KeyError
      ELSE IF char_lower = "ya"
           THEN IF i > 1 /\ lower_char(word[i - 1]) = "i"
                THEN <<"ar_alef">>
                ELSE <<"ar_yeh", "ar_alef">>
      ELSE IF char_lower = "i" THEN <<"ar_yi", "ar_yeh">>
      ELSE IF char \in DOMAIN self.CONSONANTS THEN self.CONSONANTS[char]
      ELSE IF char \in DOMAIN self.VOWELS THEN self.VOWELS[char]
      ELSE <<char>>

\* The while loop of convert_word from position i on: ''.join(result), or
\* KeyError.
RECURSIVE scan(_, _, _, _, _)
scan(self, word, i, result, loanword) ==
  IF i > Len(word) THEN result
  ELSE IF scan_char(self, word, i, loanword) = KeyError THEN KeyError
  ELSE scan(self, word, i + 1, result \o scan_char(self, word, i, loanword), loanword)

\* convert_word. (The initial_harmony and is_front it computes are read by
\* nothing in it.)
convert_word(self, word) ==
  LET word_lower == lower(word)
      arabic_result == scan(self, word, 1, <<>>, is_loanword(self, word))
  IN  IF word = <<>> THEN word
      ELSE IF word_lower \in DOMAIN self.PROPER_NOUNS THEN self.PROPER_NOUNS[word_lower]
      ELSE IF word_lower \in DOMAIN self.COMMON_WORDS THEN self.COMMON_WORDS[word_lower]
      ELSE IF arabic_result = KeyError THEN KeyError
      ELSE apply_hamza_rule(self, arabic_result, word)

\* [self.convert_word(part) for part in parts]
convert_parts(self, parts) == [k \in DOMAIN parts |-> convert_word(self, parts[k])]

convert_compound_word(self, word) ==
  LET word_lower == lower(word)
      converted_parts == convert_parts(self, split(word, "-"))
  IN  IF word = <<>> THEN word
      ELSE IF word_lower \in DOMAIN self.PROPER_NOUNS THEN self.PROPER_NOUNS[word_lower]
      ELSE IF word_lower \in DOMAIN self.COMMON_WORDS THEN self.COMMON_WORDS[word_lower]
      ELSE IF "-" \in Range(word)
           THEN IF KeyError \in Range(converted_parts) THEN KeyError
                ELSE join(<<"-">>, converted_parts)
      ELSE convert_word(self, word)

-----------------------------------------------------------------------------
(* The segmenter: convert.                                                 *)

\* The loop "for cyr, arab in self.PUNCTUATION.items(): text =
\* text.replace(cyr, arab)" from the n-th item on.
RECURSIVE punctuate(_, _, _)
punctuate(self, text, n) ==
  IF n > Len(self.PUNCTUATION) THEN text
  ELSE punctuate(self, replace(text, <<self.PUNCTUATION[n][1]>>,
                               <<self.PUNCTUATION[n][2]>>), n + 1)

\* The last position of the greedy [letters]+ that starts at position k.
RECURSIVE letters_end(_, _)
letters_end(text, k) ==
  IF k + 1 <= Len(text) /\ text[k + 1] \in RunLetters THEN letters_end(text, k + 1)
  ELSE k

\* The greedy (?:-[letters]+)* after a match that ends at position e.
RECURSIVE hyphen_groups_end(_, _)
hyphen_groups_end(text, e) ==
  IF e + 2 <= Len(text) /\ text[e + 1] = "-" /\ text[e + 2] \in RunLetters
  THEN hyphen_groups_end(text, letters_end(text, e + 2))
  ELSE e

\* The run pattern matched at position pos: the last position of the match,
\* or 0 when the pattern does not match there.
match_end(text, pos) ==
  IF text[pos] \in RunLetters THEN hyphen_groups_end(text, letters_end(text, pos))
  ELSE 0

\* re.sub(pattern, lambda m: self.convert_compound_word(m.group(0)), text)
\* from position pos on.
RECURSIVE sub(_, _, _)
sub(self, text, pos) ==
  IF pos > Len(text) THEN <<>>
  ELSE LET e == match_end(text, pos)
           here == IF e = 0 THEN <<text[pos]>>
                   ELSE convert_compound_word(self, SubSeq(text, pos, e))
           rest == sub(self, text, IF e = 0 THEN pos + 1 ELSE e + 1)
       IN  IF here = KeyError \/ rest = KeyError THEN KeyError ELSE here \o rest

convert(self, text) == sub(self, punctuate(self, text, 1), 1)

-----------------------------------------------------------------------------
(* The calls on the shared converter, step by step.                        *)
(* A call of convert runs the punctuation loop (Convert), then re.sub's    *)
(* scan of the text (Sub); for each run re.sub finds it calls              *)
(* convert_compound_word (ConvertCompoundWord), which calls convert_word   *)
(* on the run or on each of its parts (ConvertWord); convert_word scans    *)
(* the word one character a step (Scan) and returns what apply_hamza_rule  *)
(* makes of the result (ApplyHamzaRule).                                   *)

\* The local state of a call convert(s) that has not started: pc is the
\* call's position in the code, the other fields are the local variables of
\* convert (text, pos, out: what re.sub has consumed and produced, m: the
\* match), of convert_compound_word (parts, converted_parts) and of
\* convert_word (word, i, result, loanword: its is_loanword).
NewCall(s) ==
  [input |-> s, pc |-> "convert", text |-> <<>>, pos |-> 1, out |-> <<>>,
   m |-> <<>>, parts |-> <<>>, converted_parts |-> <<>>,
   word |-> <<>>, i |-> 1, result |-> <<>>, loanword |-> FALSE]

\* The punctuation loop of convert.
Convert(c) ==
  /\ call[c].pc = "convert"
  /\ call' = [call EXCEPT ![c] =
       [call[c] EXCEPT !.text = punctuate(converter, call[c].input, 1),
                       !.pos = 1, !.out = <<>>, !.pc = "sub"]]
  /\ UNCHANGED converter

\* One step of re.sub at position pos: the end of the text (convert
\* returns), a character outside every run (copied), or a run (handed to
\* convert_compound_word).
Sub(c) ==
  /\ call[c].pc = "sub"
  /\ LET cl == call[c]
         e == match_end(cl.text, cl.pos)
     IN  call' = [call EXCEPT ![c] =
           IF cl.pos > Len(cl.text) THEN [cl EXCEPT !.pc = "done"]
           ELSE IF e = 0
                THEN [cl EXCEPT !.out = Append(cl.out, cl.text[cl.pos]),
                                !.pos = cl.pos + 1]
                ELSE [cl EXCEPT !.m = SubSeq(cl.text, cl.pos, e),
                                !.pos = e + 1,
                                !.pc = "convert_compound_word"]]
  /\ UNCHANGED converter

\* ReturnMatch with the replacement put before the output so far.
ReturnMatch_Prepend(cl, value) == [cl EXCEPT !.out = value \o cl.out, !.pc = "sub"]

\* The replacement of the match, back in re.sub.
ReturnMatch(cl, value) == [cl EXCEPT !.out = cl.out \o value, !.pc = "sub"]

\* convert_word returns value to convert_compound_word, which calls it on
\* the next part or, after the last, returns '-'.join(converted_parts).
ReturnWord(cl, value) ==
  LET converted_parts == Append(cl.converted_parts, value)
  IN  IF Len(converted_parts) = Len(cl.parts)
      THEN ReturnMatch([cl EXCEPT !.converted_parts = converted_parts],
                       join(<<"-">>, converted_parts))
      ELSE [cl EXCEPT !.converted_parts = converted_parts, !.pc = "convert_word"]

\* ConvertCompoundWord that hands the whole run to convert_word, hyphens
\* included.
ConvertCompoundWord_NoSplit(c) ==
  /\ call[c].pc = "convert_compound_word"
  /\ LET cl == call[c]
         word == cl.m
         word_lower == lower(word)
     IN  call' = [call EXCEPT ![c] =
           IF word_lower \in DOMAIN converter.PROPER_NOUNS
           THEN ReturnMatch(cl, converter.PROPER_NOUNS[word_lower])
           ELSE IF word_lower \in DOMAIN converter.COMMON_WORDS
                THEN ReturnMatch(cl, converter.COMMON_WORDS[word_lower])
           ELSE [cl EXCEPT !.parts = <<word>>, !.converted_parts = <<>>,
                           !.pc = "convert_word"]]
  /\ UNCHANGED converter

\* convert_compound_word up to its first call of convert_word.
ConvertCompoundWord(c) ==
  /\ call[c].pc = "convert_compound_word"
  /\ LET cl == call[c]
         word == cl.m
         word_lower == lower(word)
     IN  call' = [call EXCEPT ![c] =
           IF word = <<>> THEN ReturnMatch(cl, word)
           ELSE IF word_lower \in DOMAIN converter.PROPER_NOUNS
                THEN ReturnMatch(cl, converter.PROPER_NOUNS[word_lower])
           ELSE IF word_lower \in DOMAIN converter.COMMON_WORDS
                THEN ReturnMatch(cl, converter.COMMON_WORDS[word_lower])
           ELSE [cl EXCEPT !.parts = IF "-" \in Range(word) THEN split(word, "-")
                                     ELSE <<word>>,
                           !.converted_parts = <<>>,
                           !.pc = "convert_word"]]
  /\ UNCHANGED converter

\* ConvertWord with is_loanword asked of the whole run, not of the part.
ConvertWord_RunLoanword(c) ==
  /\ call[c].pc = "convert_word"
  /\ LET cl == call[c]
         word == cl.parts[Len(cl.converted_parts) + 1]
         word_lower == lower(word)
     IN  call' = [call EXCEPT ![c] =
           IF word = <<>> THEN ReturnWord(cl, word)
           ELSE IF word_lower \in DOMAIN converter.PROPER_NOUNS
                THEN ReturnWord(cl, converter.PROPER_NOUNS[word_lower])
           ELSE IF word_lower \in DOMAIN converter.COMMON_WORDS
                THEN ReturnWord(cl, converter.COMMON_WORDS[word_lower])
           ELSE [cl EXCEPT !.word = word, !.i = 1, !.result = <<>>,
                           !.loanword = is_loanword(converter, cl.m),
                           !.pc = "scan"]]
  /\ UNCHANGED converter

\* ConvertWord without the two dictionary lookups.
ConvertWord_NoLookup(c) ==
  /\ call[c].pc = "convert_word"
  /\ LET cl == call[c]
         word == cl.parts[Len(cl.converted_parts) + 1]
     IN  call' = [call EXCEPT ![c] =
           IF word = <<>> THEN ReturnWord(cl, word)
           ELSE [cl EXCEPT !.word = word, !.i = 1, !.result = <<>>,
                           !.loanword = is_loanword(converter, word),
                           !.pc = "scan"]]
  /\ UNCHANGED converter

\* convert_word on the next part, up to its while loop.
ConvertWord(c) ==
  /\ call[c].pc = "convert_word"
  /\ LET cl == call[c]
         word == cl.parts[Len(cl.converted_parts) + 1]
         word_lower == lower(word)
     IN  call' = [call EXCEPT ![c] =
           IF word = <<>> THEN ReturnWord(cl, word)
           ELSE IF word_lower \in DOMAIN converter.PROPER_NOUNS
                THEN ReturnWord(cl, converter.PROPER_NOUNS[word_lower])
           ELSE IF word_lower \in DOMAIN converter.COMMON_WORDS
                THEN ReturnWord(cl, converter.COMMON_WORDS[word_lower])
           ELSE [cl EXCEPT !.word = word, !.i = 1, !.result = <<>>,
                           !.loanword = is_loanword(converter, word),
                           !.pc = "scan"]]
  /\ UNCHANGED converter

\* One pass of the while loop of convert_word, or its exit.
Scan(c) ==
  /\ call[c].pc = "scan"
  /\ LET cl == call[c]
         emitted == scan_char(converter, cl.word, cl.i, cl.loanword)
     IN  call' = [call EXCEPT ![c] =
           IF ~(cl.i <= Len(cl.word)) THEN [cl EXCEPT !.pc = "apply_hamza_rule"]
           ELSE IF emitted = KeyError THEN [cl EXCEPT !.pc = "KeyError"]
           ELSE [cl EXCEPT !.result = cl.result \o emitted, !.i = cl.i + 1]]
  /\ UNCHANGED converter

\* ApplyHamzaRule that also stores the word's conversion in COMMON_WORDS.
ApplyHamzaRule_Memo(c) ==
  /\ call[c].pc = "apply_hamza_rule"
  /\ LET value == apply_hamza_rule(converter, call[c].result, call[c].word)
     IN  /\ call' = [call EXCEPT ![c] = ReturnWord(call[c], value)]
         /\ converter' = [converter EXCEPT !.COMMON_WORDS =
                            (lower(call[c].word) :> value) @@ @]

\* "return self.apply_hamza_rule(arabic_result, word)" of convert_word.
ApplyHamzaRule(c) ==
  /\ call[c].pc = "apply_hamza_rule"
  /\ call' = [call EXCEPT ![c] =
       ReturnWord(call[c],
                  apply_hamza_rule(converter, call[c].result, call[c].word))]
  /\ UNCHANGED converter

Next ==
  \/ \E c \in DOMAIN call : Convert(c)
  \/ \E c \in DOMAIN call : Sub(c)
  \/ \E c \in DOMAIN call : ConvertCompoundWord(c)
  \/ \E c \in DOMAIN call : ConvertWord(c)
  \/ \E c \in DOMAIN call : Scan(c)
  \/ \E c \in DOMAIN call : ApplyHamzaRule(c)

-----------------------------------------------------------------------------
(* The inputs.                                                             *)

\* The strings over alphabet of length at most n.
Strings(alphabet, n) == UNION {[1..k -> alphabet] : k \in 0..n}

\* str.upper() and str.capitalize() on the letters of the run alphabet.
upper(s) ==
  [k \in DOMAIN s |->
     IF s[k] \in Range(LowerLetters)
     THEN UpperLetters[CHOOSE j \in DOMAIN LowerLetters : LowerLetters[j] = s[k]]
     ELSE s[k]]

capitalize(s) == [k \in DOMAIN s |-> IF k = 1 THEN upper(s)[k] ELSE lower(s)[k]]

\* Every other letter a capital.
alternate(s) == [k \in DOMAIN s |-> IF k % 2 = 0 THEN upper(s)[k] ELSE lower(s)[k]]

CaseVariants(w) == {w, upper(w), capitalize(w), alternate(w)}

\* The keys of the two dictionaries, in four spellings each.
DictKeys == DOMAIN PROPER_NOUNS \cup DOMAIN COMMON_WORDS
DictInputs == UNION {CaseVariants(w) : w \in DictKeys}

\* Words: letters of every class the classifier and the marker cascade tell
\* apart.  ө і а е и я ю қ Қ к ф т
WordAlphabet == {"oe", "ii", "a", "e", "i", "ya", "yu", "q", "Q", "k", "f", "t"}
MaxWordLen == 3

\* Texts: two letters, the hyphen and a mapped punctuation mark.  ө з - ,
TextAlphabet == {"oe", "z", "-", ","}
MaxTextLen == 5

\* Strings without a letter of the run alphabet: the six keys of PUNCTUATION,
\* the hyphen, the space, a digit, a Latin letter and an Arabic-script letter.
PlainAlphabet == {",", ".", ":", ";", "?", "!", "-", " ", "1", "lat_x", "ar_alef"}
MaxPlainLen == 3

\* The words of I_INITIAL_NATIVE_WORDS, in four spellings each.
NativeInputs == UNION {CaseVariants(w) : w \in I_INITIAL_NATIVE_WORDS}

\* Every letter of the run alphabet, alone.
LetterInputs == {<<c>> : c \in RunLetters}

\* Words over one letter for each branch of the while loop of convert_word.
\* ь Ъ ю ц Щ ё я и б а
ScanAlphabet == {"soft", "HARD", "yu", "c", "SHCH", "yo", "ya", "i", "b", "a"}
MaxScanLen == 2

\* Compounds: the letters of a dictionary word whose stored value is not what
\* the rules give (си), the letter ю, a loanword consonant and the hyphen.
\* с и ю ф -
PartAlphabet == {"s", "i", "yu", "f", "-"}
MaxPartsLen == 4

\* Roots after a soft prefix: a back vowel, a front vowel and a consonant.
\* а ә т
RootAlphabet == {"a", "ae", "t"}
MaxRootLen == 2

\* The prefixes of SOFT_PREFIXES_WITH_HARD_ROOT, each before every root, as
\* written and capitalized.
PrefixInputs ==
  UNION {{w, capitalize(w)} :
           w \in {SOFT_PREFIXES_WITH_HARD_ROOT[n] \o root :
                    n \in DOMAIN SOFT_PREFIXES_WITH_HARD_ROOT,
                    root \in Strings(RootAlphabet, MaxRootLen)}}

Inputs ==
  DictInputs \cup NativeInputs \cup LetterInputs
    \cup Strings(WordAlphabet, MaxWordLen) \cup Strings(ScanAlphabet, MaxScanLen)
    \cup Strings(TextAlphabet, MaxTextLen) \cup Strings(PlainAlphabet, MaxPlainLen)
    \cup Strings(PartAlphabet, MaxPartsLen) \cup PrefixInputs

\* One caller, any input.
Init ==
  /\ converter = CyrillicToArabicConverter
  /\ call \in [{1} -> {NewCall(s) : s \in Inputs}]

Spec == Init /\ [][Next]_vars

-----------------------------------------------------------------------------
(* Concurrent calls of convert on the one converter.                       *)

NumCalls == 2

\* A dictionary word, a compound of two rule-converted parts, and a mapped
\* mark before a word.  өз  іт-ю  ,қ
ConcInputs == {<<"oe", "z">>, <<"ii", "t", "-", "yu">>, <<",", "q">>}

InitConc ==
  /\ converter = CyrillicToArabicConverter
  /\ call \in [1..NumCalls -> {NewCall(s) : s \in ConcInputs}]

SpecConc == InitConc /\ [][Next]_vars

-----------------------------------------------------------------------------
(* apply_hamza_rule called on its own, and again on what it returned.      *)

\* Source words: a letter for each rule of the cascade.  ф и т к е ө ә
HamzaAlphabet == {"f", "i", "t", "k", "e", "oe", "ae"}
MaxHamzaWordLen == 3

\* Raw targets: the marker and a letter, in any order.
RawAlphabet == {HAMZA, "ar_alef"}
MaxRawLen == 2

\* A caller about to call apply_hamza_rule(arabic_word, word); returned holds
\* what its calls have returned so far.
NewRuleCall(arabic_word, word) ==
  [pc |-> "reapply", arabic_word |-> arabic_word, word |-> word, returned |-> <<>>]

\* The caller applies apply_hamza_rule to arabic_word, then to what that
\* returned.
Reapply(c) ==
  /\ call[c].pc = "reapply"
  /\ Len(call[c].returned) < 2
  /\ call' = [call EXCEPT ![c].returned =
       Append(@, apply_hamza_rule(converter,
                                  IF @ = <<>> THEN call[c].arabic_word ELSE @[Len(@)],
                                  call[c].word))]
  /\ UNCHANGED converter

\* The source words of the rule: those over HamzaAlphabet and the words of
\* I_INITIAL_NATIVE_WORDS.
HamzaWords == Strings(HamzaAlphabet, MaxHamzaWordLen) \cup NativeInputs

\* arabic_result of convert_word for word: what its while loop produces.
arabic_result(self, word) == scan(self, word, 1, <<>>, is_loanword(self, word))

\* The raw targets the rule is called on for word: the strings over
\* RawAlphabet, and the one convert_word calls it on.
RawTargets(word) ==
  Strings(RawAlphabet, MaxRawLen) \cup {arabic_result(CyrillicToArabicConverter, word)}

InitHamza ==
  /\ converter = CyrillicToArabicConverter
  /\ call \in [{1} -> UNION {{NewRuleCall(r, w) : r \in RawTargets(w)} : w \in HamzaWords}]

NextHamza == \E c \in DOMAIN call : Reapply(c)

SpecHamza == InitHamza /\ [][NextHamza]_vars

-----------------------------------------------------------------------------
(* convert called on a text, and again on what it returned.                *)

\* A caller about to call convert(text); returned holds what its calls have
\* returned so far.
NewTextCall(text) == [pc |-> "reconvert", text |-> text, returned |-> <<>>]

\* The caller applies convert to text, then to what that returned.
Reconvert(c) ==
  /\ call[c].pc = "reconvert"
  /\ Len(call[c].returned) < 2
  /\ call' = [call EXCEPT ![c].returned =
       Append(@, convert(converter, IF @ = <<>> THEN call[c].text ELSE @[Len(@)]))]
  /\ UNCHANGED converter

InitTwice ==
  /\ converter = CyrillicToArabicConverter
  /\ call \in [{1} -> {NewTextCall(s) : s \in Inputs}]

NextTwice == \E c \in DOMAIN call : Reconvert(c)

SpecTwice == InitTwice /\ [][NextTwice]_vars

-----------------------------------------------------------------------------
(* Two calls of convert, on words that differ only in letters the tables   *)
(* map to the same target unit.                                            *)

\* The target unit the tables give a letter: its value in CONSONANTS, VOWELS
\* or COMBINATIONS; for и and the sign letters, which are in none of them,
\* the letter in lower case.
Unit(x) ==
  IF x \in DOMAIN CONSONANTS THEN CONSONANTS[x]
  ELSE IF x \in DOMAIN VOWELS THEN VOWELS[x]
  ELSE IF x \in DOMAIN COMBINATIONS THEN COMBINATIONS[x]
  ELSE <<lower_char(x)>>

SameUnits(v, w) == Len(v) = Len(w) /\ \A k \in DOMAIN v : Unit(v[k]) = Unit(w[k])

\* Words: ю, и, and a back and a front vowel of one target unit.  ю и ы і
PairAlphabet == {"yu", "i", "y", "ii"}
MaxPairLen == 3

PairInputs ==
  {p \in Strings(PairAlphabet, MaxPairLen) \X Strings(PairAlphabet, MaxPairLen) :
     SameUnits(p[1], p[2])}

InitPair ==
  /\ converter = CyrillicToArabicConverter
  /\ call \in {<<NewCall(p[1]), NewCall(p[2])>> : p \in PairInputs}

SpecPair == InitPair /\ [][Next]_vars

-----------------------------------------------------------------------------
(* get_initial_harmony and is_loanword called on their own, in the order   *)
(* convert_word calls them.                                                *)

\* Words: a letter for each test of the two classifiers.
\* ф Ф и і ы а т ь қ Қ к у я
ClassAlphabet ==
  {"f", "F", "i", "ii", "y", "a", "t", "soft", "q", "Q", "k", "u", "ya"}
MaxClassLen == 3

\* The loanword suffixes, alone and after a letter, in four spellings each.
SuffixInputs ==
  UNION {CaseVariants(LOANWORD_SUFFIXES[n]) \cup CaseVariants(<<"t">> \o LOANWORD_SUFFIXES[n]) :
           n \in DOMAIN LOANWORD_SUFFIXES}

ClassInputs ==
  Strings(ClassAlphabet, MaxClassLen) \cup NativeInputs \cup LetterInputs \cup SuffixInputs

\* A caller about to classify word: initial_harmony and loanword hold what
\* the two classifiers returned.
NewClassifyCall(word) ==
  [pc |-> "get_initial_harmony", word |-> word, initial_harmony |-> "", loanword |-> FALSE]

\* initial_harmony = self.get_initial_harmony(word)
GetInitialHarmony(c) ==
  /\ call[c].pc = "get_initial_harmony"
  /\ call' = [call EXCEPT ![c] =
       [call[c] EXCEPT !.initial_harmony = get_initial_harmony(converter, call[c].word),
                       !.pc = "is_loanword"]]
  /\ UNCHANGED converter

\* is_loanword = self.is_loanword(word)
IsLoanword(c) ==
  /\ call[c].pc = "is_loanword"
  /\ call' = [call EXCEPT ![c] =
       [call[c] EXCEPT !.loanword = is_loanword(converter, call[c].word),
                       !.pc = "classified"]]
  /\ UNCHANGED converter

InitClassify ==
  /\ converter = CyrillicToArabicConverter
  /\ call \in [{1} -> {NewClassifyCall(w) : w \in ClassInputs}]

NextClassify ==
  \/ \E c \in DOMAIN call : GetInitialHarmony(c)
  \/ \E c \in DOMAIN call : IsLoanword(c)

SpecClassify == InitClassify /\ [][NextClassify]_vars

-----------------------------------------------------------------------------
(* split_text of app.py: a text cut into chunks for segmented synthesis.   *)
(* Line feed, carriage return and tab are the characters "LF", "CR" and    *)
(* "TAB".                                                                  *)

\* The characters \s matches and str.strip() removes.
Whitespace == {" ", "LF", "CR", "TAB"}

\* [.!?\n] and [,;:], the characters a split follows.
SentenceEnds == {".", "!", "?", "LF"}
PhraseEnds == {",", ";", ":"}

\* str.strip()
RECURSIVE strip(_)
strip(s) ==
  IF s = <<>> THEN s
  ELSE IF s[1] \in Whitespace THEN strip(Tail(s))
  ELSE IF s[Len(s)] \in Whitespace THEN strip(SubSeq(s, 1, Len(s) - 1))
  ELSE s

\* Where the whitespace that starts at position i of s ends: the first
\* position from i on that holds no whitespace.
RECURSIVE whitespace_end(_, _)
whitespace_end(s, i) ==
  IF i <= Len(s) /\ s[i] \in Whitespace THEN whitespace_end(s, i + 1) ELSE i

\* re.split(r'(?<=[ends])\s*', s) from position search on, the piece in hand
\* starting at start: the pattern matches where the character before is one of
\* ends and takes the whitespace that follows; an empty match is not taken
\* where the match before it, empty too, was found (must_advance).
RECURSIVE re_split_from(_, _, _, _, _)
re_split_from(s, ends, start, search, must_advance) ==
  LET matches == {i \in search..(Len(s) + 1) :
                    /\ i >= 2
                    /\ s[i - 1] \in ends
                    /\ ~(must_advance /\ i = search /\ whitespace_end(s, i) = i)}
  IN  IF matches = {} THEN <<SubSeq(s, start, Len(s))>>
      ELSE LET i == CHOOSE m \in matches : \A n \in matches : m <= n
               e == whitespace_end(s, i)
           IN  <<SubSeq(s, start, i - 1)>> \o re_split_from(s, ends, e, e, e = i)

re_split(s, ends) == re_split_from(s, ends, 1, 1, FALSE)

\* text.replace('\r\n', '\n').replace('\r', '\n')
normalize(text) == replace(replace(text, <<"CR", "LF">>, <<"LF">>), <<"CR">>, <<"LF">>)

\* The loop that packs pieces (the words of a phrase, or the refined
\* segments) into chunks, from piece k on with current in hand: a piece joins
\* current behind a space when the two and the space fit in max_length, and
\* otherwise current is appended and the piece becomes current; what is in
\* hand at the end is appended. skip_empty is the word loop's
\* 'if not word: continue'.
RECURSIVE pack(_, _, _, _, _)
pack(pieces, k, current, max_length, skip_empty) ==
  IF k > Len(pieces) THEN (IF current # <<>> THEN <<current>> ELSE <<>>)
  ELSE LET piece == pieces[k]
       IN  IF skip_empty /\ piece = <<>> THEN pack(pieces, k + 1, current, max_length, skip_empty)
           ELSE IF Len(current) + Len(piece) + 1 <= max_length
                THEN pack(pieces, k + 1, strip(current \o <<" ">> \o piece), max_length, skip_empty)
                ELSE (IF current # <<>> THEN <<current>> ELSE <<>>)
                     \o pack(pieces, k + 1, piece, max_length, skip_empty)

\* Step 3: what the word loop appends for a phrase longer than max_length.
split_words(phrase, max_length) == pack(split(phrase, " "), 1, <<>>, max_length, TRUE)

\* Step 2: what the phrase loop appends from phrase k on.
RECURSIVE split_phrases(_, _, _)
split_phrases(phrases, k, max_length) ==
  IF k > Len(phrases) THEN <<>>
  ELSE LET phrase == strip(phrases[k])
       IN  (IF phrase = <<>> THEN <<>>
            ELSE IF Len(phrase) <= max_length THEN <<phrase>>
            ELSE split_words(phrase, max_length))
           \o split_phrases(phrases, k + 1, max_length)

\* What one turn of the segment loop appends to refined_segments.
refine(segment, max_length) ==
  LET seg == strip(segment)
  IN  IF seg = <<>> THEN <<>>
      ELSE IF Len(seg) <= max_length THEN <<seg>>
      ELSE split_phrases(re_split(seg, PhraseEnds), 1, max_length)

RECURSIVE refine_all(_, _, _)
refine_all(segments, k, max_length) ==
  IF k > Len(segments) THEN <<>>
  ELSE refine(segments[k], max_length) \o refine_all(segments, k + 1, max_length)

\* split_text(text, max_length)
split_text(text, max_length) ==
  pack(refine_all(re_split(normalize(text), SentenceEnds), 1, max_length),
       1, <<>>, max_length, FALSE)

\* A caller about to call split_text(text, max_length); k is the place of
\* the loop in hand in its list.
NewSplitCall(text, max_length) ==
  [pc |-> "split_text", text |-> text, max_length |-> max_length,
   segments |-> <<>>, refined_segments |-> <<>>, k |-> 1,
   current_chunk |-> <<>>, chunks |-> <<>>]

\* Line breaks normalised and the text split at sentence boundaries.
SplitSentences(c) ==
  /\ call[c].pc = "split_text"
  /\ call' = [call EXCEPT ![c] =
       [call[c] EXCEPT !.segments = re_split(normalize(call[c].text), SentenceEnds),
                       !.pc = "refine"]]
  /\ UNCHANGED converter

\* One turn of 'for seg in segments', the phrase and word loops included.
RefineSegment(c) ==
  /\ call[c].pc = "refine"
  /\ call[c].k <= Len(call[c].segments)
  /\ call' = [call EXCEPT ![c] =
       [call[c] EXCEPT !.refined_segments =
                          @ \o refine(call[c].segments[call[c].k], call[c].max_length),
                       !.k = @ + 1]]
  /\ UNCHANGED converter

\* The segment loop is over: chunks = [], current_chunk = "".
StartGrouping(c) ==
  /\ call[c].pc = "refine"
  /\ call[c].k > Len(call[c].segments)
  /\ call' = [call EXCEPT ![c] = [call[c] EXCEPT !.k = 1, !.pc = "group"]]
  /\ UNCHANGED converter

\* One turn of 'for seg in refined_segments'.
GroupSegment(c) ==
  /\ call[c].pc = "group"
  /\ call[c].k <= Len(call[c].refined_segments)
  /\ LET seg == call[c].refined_segments[call[c].k]
         current_chunk == call[c].current_chunk
     IN  call' = [call EXCEPT ![c] =
           IF Len(current_chunk) + Len(seg) + 1 <= call[c].max_length
           THEN [call[c] EXCEPT !.current_chunk = strip(current_chunk \o <<" ">> \o seg),
                                !.k = @ + 1]
           ELSE [call[c] EXCEPT !.chunks = IF current_chunk # <<>>
                                            THEN Append(@, current_chunk) ELSE @,
                                !.current_chunk = seg,
                                !.k = @ + 1]]
  /\ UNCHANGED converter

\* The grouping loop is over: the chunk in hand is appended and chunks
\* returned.
ReturnChunks(c) ==
  /\ call[c].pc = "group"
  /\ call[c].k > Len(call[c].refined_segments)
  /\ call' = [call EXCEPT ![c] =
       [call[c] EXCEPT !.chunks = IF call[c].current_chunk # <<>>
                                   THEN Append(@, call[c].current_chunk) ELSE @,
                       !.pc = "chunks"]]
  /\ UNCHANGED converter

\* Texts of a letter, the space, a sentence end, a phrase end and the line
\* feed; texts with the other line breaks and the tab; and a text for each of
\* the other marks.
SplitAlphabet == {"a", " ", ".", ",", "LF"}
MaxSplitLen == 5
BreakAlphabet == {"a", " ", "CR", "LF", "TAB"}
MaxBreakLen == 3
MarkInputs == {<<"a", m, " ", "a">> : m \in SentenceEnds \cup PhraseEnds}
SplitInputs ==
  Strings(SplitAlphabet, MaxSplitLen) \cup Strings(BreakAlphabet, MaxBreakLen) \cup MarkInputs

\* The values of max_length.
MaxLengths == 1..3

InitSplit ==
  /\ converter = CyrillicToArabicConverter
  /\ call \in [{1} -> {NewSplitCall(t, m) : t \in SplitInputs, m \in MaxLengths}]

NextSplit ==
  \/ \E c \in DOMAIN call : SplitSentences(c)
  \/ \E c \in DOMAIN call : RefineSegment(c)
  \/ \E c \in DOMAIN call : StartGrouping(c)
  \/ \E c \in DOMAIN call : GroupSegment(c)
  \/ \E c \in DOMAIN call : ReturnChunks(c)

SpecSplit == InitSplit /\ [][NextSplit]_vars

-----------------------------------------------------------------------------
(* What the claims speak of.                                               *)

Done(cl) == cl.pc = "done"

\* A hyphen-free word: a non-empty run of letters of the run alphabet.
IsWord(s) == s # <<>> /\ \A k \in DOMAIN s : s[k] \in RunLetters

HasHamza(s) == HAMZA \in Range(s)

\* The value the tables store for key k: PROPER_NOUNS is consulted first.
TableValue(k) == IF k \in DOMAIN PROPER_NOUNS THEN PROPER_NOUNS[k] ELSE COMMON_WORDS[k]

\* ө ү і
HighFront == {"oe", "ue", "ii"}

\* C1: for every key w of the proper-noun or the exception-word table (keys
\* with a space or a hyphen included) and every case variant of w,
\* convert(w) returns exactly the value the table stores for w.
C1_TableValue ==
  \A c \in DOMAIN call :
    Done(call[c]) /\ lower(call[c].input) \in DictKeys
      => call[c].out = TableValue(lower(call[c].input))

\* C2: for every hyphen-free word w with is_loanword(w), the output of
\* convert(w) contains no glottal marker, whether it comes from a dictionary
\* entry or from the rule pipeline.
C2_LoanwordNoMarker ==
  \A c \in DOMAIN call :
    Done(call[c]) /\ IsWord(call[c].input) /\ is_loanword(converter, call[c].input)
      => ~HasHamza(call[c].out)

\* A loanword that begins with ө, ү or і and is in no dictionary has been
\* converted by the rules, without a marker.
C2_Witness ==
  \E c \in DOMAIN call :
    /\ Done(call[c]) /\ IsWord(call[c].input)
    /\ is_loanword(converter, call[c].input)
    /\ lower(call[c].input) \notin DictKeys
    /\ lower(call[c].input)[1] \in HighFront
    /\ call[c].out # <<>> /\ ~HasHamza(call[c].out)

HasBackSignal(s) == \E k \in DOMAIN s : lower(s)[k] \in {"q", "gh"}

\* C3 as claimed: for every hyphen-free word that contains қ or ғ (in either
\* case), the output of convert contains no glottal marker, even when the
\* word also contains or begins with ө, ү or і.
C3_Claimed ==
  \A c \in DOMAIN call :
    Done(call[c]) /\ IsWord(call[c].input) /\ HasBackSignal(call[c].input)
      => ~HasHamza(call[c].out)

\* C3 as amended: for every hyphen-free word that contains қ or ғ (in either
\* case), does not begin with ө, ү or і and is not a word of the
\* i-initial-native set, the output of convert contains no glottal marker,
\* even when the word also contains ө, ү or і.
C3_BackSignalNoMarker ==
  \A c \in DOMAIN call :
    /\ Done(call[c]) /\ IsWord(call[c].input) /\ HasBackSignal(call[c].input)
    /\ lower(call[c].input)[1] \notin HighFront
    /\ lower(call[c].input) \notin I_INITIAL_NATIVE_WORDS
    => ~HasHamza(call[c].out)

\* A word in no dictionary with қ and, before it, a high-front vowel that is
\* not its first letter (such as тіқ) has been converted without a marker.
C3_Witness ==
  \E c \in DOMAIN call :
    /\ Done(call[c]) /\ IsWord(call[c].input) /\ HasBackSignal(call[c].input)
    /\ lower(call[c].input) \notin DictKeys
    /\ ~is_loanword(converter, call[c].input)
    /\ lower(call[c].input)[1] \notin HighFront
    /\ \E k \in DOMAIN call[c].input : lower(call[c].input)[k] \in HighFront
    /\ call[c].out # <<>> /\ ~HasHamza(call[c].out)

\* C4: for every hyphen-free word whose first letter is ө, ү or і and which
\* contains none of к, г, қ, ғ, the output of convert begins with the
\* glottal marker.
C4_HighFrontInitialMarker ==
  \A c \in DOMAIN call :
    /\ Done(call[c]) /\ IsWord(call[c].input)
    /\ lower(call[c].input)[1] \in HighFront
    /\ \A k \in DOMAIN call[c].input : lower(call[c].input)[k] \notin {"k", "g", "q", "gh"}
    => call[c].out # <<>> /\ call[c].out[1] = HAMZA

\* What C5 says of one character: ',' ';' '?' become the Arabic marks, every
\* other character stays.
C5_Char(x) ==
  IF x = "," THEN "ar_comma"
  ELSE IF x = ";" THEN "ar_semicolon"
  ELSE IF x = "?" THEN "ar_question"
  ELSE x

\* C5: for every string s without a letter of the run alphabet, convert(s)
\* is s with every ',' ';' '?' replaced by its Arabic mark and every other
\* character unchanged, in the same position.
C5_NoLetters ==
  \A c \in DOMAIN call :
    Done(call[c]) /\ Range(call[c].input) \cap RunLetters = {}
      => call[c].out = [k \in DOMAIN call[c].input |-> C5_Char(call[c].input[k])]

\* A string of mapped and unmapped marks and a digit, no letter, has been
\* converted.
C5_Witness ==
  \E c \in DOMAIN call :
    /\ Done(call[c]) /\ Range(call[c].input) \cap RunLetters = {}
    /\ {",", ".", "1"} \subseteq Range(call[c].input)
    /\ "ar_comma" \in Range(call[c].out)

\* A run p1-p2-...-pn, n >= 2: letter runs joined by single hyphens.
IsCompound(s) ==
  /\ "-" \in Range(s)
  /\ \A k \in DOMAIN split(s, "-") : IsWord(split(s, "-")[k])

\* C6: for every run p1-...-pn (n >= 2) whose lowercased whole form is in
\* neither dictionary, convert(p1-...-pn) = convert(p1) + '-' + ... + '-' +
\* convert(pn).
C6_Compound ==
  \A c \in DOMAIN call :
    Done(call[c]) /\ IsCompound(call[c].input) /\ lower(call[c].input) \notin DictKeys
      => call[c].out =
           join(<<"-">>, [k \in DOMAIN split(call[c].input, "-") |->
                            convert(converter, split(call[c].input, "-")[k])])

\* A compound in no dictionary whose first part has no vowel and whose
\* second part takes the marker (such as з-ө) has been converted: converted
\* as one word it would begin with the marker.
C6_Witness ==
  \E c \in DOMAIN call :
    /\ Done(call[c]) /\ IsCompound(call[c].input)
    /\ lower(call[c].input) \notin DictKeys
    /\ Len(split(call[c].input, "-")) = 2
    /\ HasHamza(call[c].out) /\ call[c].out[1] # HAMZA

\* The place between positions k and k+1 of s is inside a run: between two
\* letters, or next to a hyphen that joins two letters.
InsideRun(s, k) ==
  /\ 1 <= k /\ k < Len(s)
  /\ \/ s[k] \in RunLetters /\ s[k + 1] \in RunLetters
     \/ s[k] \in RunLetters /\ s[k + 1] = "-" /\ k + 2 <= Len(s) /\ s[k + 2] \in RunLetters
     \/ s[k] = "-" /\ s[k + 1] \in RunLetters /\ k >= 2 /\ s[k - 1] \in RunLetters

\* C8: convert acts run by run and keeps the order: cut at any two places
\* outside the runs, the output is the conversion of the three pieces, in
\* order, each converted alone; and a hyphen that is not between two letter
\* runs is copied unchanged between the conversions of what precedes and
\* what follows it.
C8_RunByRun ==
  \A c \in DOMAIN call :
    Done(call[c]) =>
      LET s == call[c].input
          piece(a, b) == convert(converter, SubSeq(s, a, b))
      IN  /\ \A j \in 0..Len(s) : \A k \in j..Len(s) :
                ~InsideRun(s, j) /\ ~InsideRun(s, k)
                  => call[c].out = piece(1, j) \o piece(j + 1, k) \o piece(k + 1, Len(s))
          /\ \A k \in DOMAIN s :
                s[k] = "-" /\ ~InsideRun(s, k - 1) /\ ~InsideRun(s, k)
                  => call[c].out = piece(1, k - 1) \o <<"-">> \o piece(k + 1, Len(s))

\* A text with a mapped mark, then a run that takes the marker, then a
\* hyphen that joins nothing (such as ,ө-) has been converted.
C8_Witness ==
  \E c \in DOMAIN call :
    /\ Done(call[c]) /\ Len(call[c].input) >= 3
    /\ call[c].input[1] = ","
    /\ call[c].input[2] \in RunLetters
    /\ call[c].input[Len(call[c].input)] = "-"
    /\ call[c].out[1] = "ar_comma" /\ call[c].out[2] = HAMZA
    /\ call[c].out[Len(call[c].out)] = "-"

\* Two markers in a row.
DoubleMarker(s) == \E k \in 1..(Len(s) - 1) : s[k] = HAMZA /\ s[k + 1] = HAMZA

\* C7: marker insertion is idempotent: for every source word w and raw
\* target r, apply_hamza_rule(apply_hamza_rule(r, w), w) =
\* apply_hamza_rule(r, w), and if r has no two consecutive markers then
\* neither has apply_hamza_rule(r, w).
C7_Idempotent ==
  \A c \in DOMAIN call :
    /\ Len(call[c].returned) = 2 => call[c].returned[2] = call[c].returned[1]
    /\ Len(call[c].returned) >= 1 /\ ~DoubleMarker(call[c].arabic_word)
         => ~DoubleMarker(call[c].returned[1])

\* The rule has put the marker before a raw target that did not begin with
\* it, and the second application has returned the same.
C7_Witness ==
  \E c \in DOMAIN call :
    /\ Len(call[c].returned) = 2
    /\ call[c].arabic_word # <<>> /\ call[c].arabic_word[1] # HAMZA
    /\ call[c].returned[1] = <<HAMZA>> \o call[c].arabic_word
    /\ call[c].returned[2] = call[c].returned[1]

\* The steps convert_compound_word has left for the parts from the k-th on:
\* for each, the call of convert_word, a pass of the loop per character, the
\* exit of the loop and apply_hamza_rule.
RECURSIVE PartsLeft(_, _)
PartsLeft(parts, k) ==
  IF k > Len(parts) THEN 0 ELSE Len(parts[k]) + 3 + PartsLeft(parts, k + 1)

\* A bound on the steps a call has left: six for each character of the text
\* re.sub has not consumed, and those of the run in hand.
StepsLeft(cl) ==
  LET unread == 6 * (Len(cl.text) - cl.pos + 1) + 1
  IN  CASE cl.pc = "convert" -> 6 * Len(cl.input) + 2
        [] cl.pc = "sub" -> unread
        [] cl.pc = "convert_compound_word" -> unread + 1 + PartsLeft(split(cl.m, "-"), 1)
        [] cl.pc = "convert_word" ->
             unread + PartsLeft(cl.parts, Len(cl.converted_parts) + 1)
        [] cl.pc = "scan" ->
             unread + PartsLeft(cl.parts, Len(cl.converted_parts) + 2)
               + (Len(cl.word) - cl.i + 1) + 2
        [] cl.pc = "apply_hamza_rule" ->
             unread + PartsLeft(cl.parts, Len(cl.converted_parts) + 2) + 1
        [] OTHER -> 0

\* Call cl can take a step: it is at a place of the code that has one, and
\* where it is about to call convert_word there is a part left to call it on.
CanStep(cl) ==
  /\ cl.pc \in {"convert", "sub", "convert_compound_word", "convert_word", "scan",
                "apply_hamza_rule"}
  /\ cl.pc \in {"convert_word", "scan", "apply_hamza_rule"}
       => Len(cl.converted_parts) < Len(cl.parts)

\* C9: convert is total: no lookup of the scan misses (no call is ever at
\* KeyError), the scan index stays within the word and is at its end when
\* the loop exits, a call that has not returned can take a step, each pass
\* of the loop advances the index by one, every step of a call lowers
\* StepsLeft, and a call that returns has consumed the whole text.
C9_Total ==
  /\ [](\A c \in DOMAIN call :
          /\ call[c].pc # "KeyError"
          /\ call[c].pc = "scan" => 1 <= call[c].i /\ call[c].i <= Len(call[c].word) + 1
          /\ call[c].pc = "apply_hamza_rule" => call[c].i = Len(call[c].word) + 1
          /\ Done(call[c]) => call[c].pos = Len(call[c].input) + 1
          /\ ~Done(call[c]) => CanStep(call[c])
          /\ StepsLeft(call[c]) >= 0
          /\ StepsLeft(call[c]) = 0 <=> Done(call[c]))
  /\ [][\A c \in DOMAIN call :
          call'[c] # call[c] =>
            /\ StepsLeft(call'[c]) < StepsLeft(call[c])
            /\ call[c].pc = "scan" /\ call'[c].pc = "scan"
                 => call'[c].i = call[c].i + 1]_vars

\* A word of a capital letter of COMBINATIONS and a sign letter (such as Щь)
\* has been converted.
C9_Witness ==
  \E c \in DOMAIN call :
    /\ Done(call[c]) /\ call[c].input = <<"SHCH", "soft">>
    /\ call[c].out = <<"ar_sheen", "ar_sheen">>

\* C10: calls of convert on one shared converter do not interfere: under
\* every interleaving of their steps each call returns what convert returns
\* for its input on the converter as constructed, and the converter's
\* tables are, after every step, as __init__ built them.
C10_NoInterference ==
  /\ converter = CyrillicToArabicConverter
  /\ \A c \in DOMAIN call :
       Done(call[c]) => call[c].out = convert(CyrillicToArabicConverter, call[c].input)

\* One call has returned while another, on a different input, is in the
\* middle of its scan.
C10_Witness ==
  \E c \in DOMAIN call : \E d \in DOMAIN call :
    /\ c # d /\ call[c].input # call[d].input
    /\ Done(call[c]) /\ call[c].out # <<>>
    /\ call[d].pc = "scan" /\ call[d].i > 1

\* The rule pipeline alone: the transcription of w by the scan, then the
\* marker rule, with no dictionary lookup.
RulePipeline(w) ==
  apply_hamza_rule(converter, scan(converter, w, 1, <<>>, is_loanword(converter, w)), w)

\* C11 as claimed: for a hyphenated run that is not a dictionary entry as a
\* whole, the output of each hyphen-delimited part is the rule pipeline's
\* applyMarker(transcribe(part), part), without a dictionary lookup of the
\* part.
C11_Claimed ==
  \A c \in DOMAIN call :
    Done(call[c]) /\ IsCompound(call[c].input) /\ lower(call[c].input) \notin DictKeys
      => /\ call[c].parts = split(call[c].input, "-")
         /\ Len(call[c].converted_parts) = Len(call[c].parts)
         /\ \A k \in DOMAIN call[c].parts :
              call[c].converted_parts[k] = RulePipeline(call[c].parts[k])

\* C11 as amended: for a hyphenated run that is not a dictionary entry as a
\* whole, the output of each hyphen-delimited part is the value the tables
\* store for the lowercased part when the part is a key of PROPER_NOUNS or
\* COMMON_WORDS, and otherwise the rule pipeline's applyMarker(transcribe(
\* part), part); the run's output is these joined by hyphens.
C11_PartByLookupOrRules ==
  \A c \in DOMAIN call :
    Done(call[c]) /\ IsCompound(call[c].input) /\ lower(call[c].input) \notin DictKeys
      => /\ call[c].parts = split(call[c].input, "-")
         /\ Len(call[c].converted_parts) = Len(call[c].parts)
         /\ \A k \in DOMAIN call[c].parts :
              call[c].converted_parts[k] =
                IF lower(call[c].parts[k]) \in DictKeys
                THEN TableValue(lower(call[c].parts[k]))
                ELSE RulePipeline(call[c].parts[k])
         /\ call[c].out = join(<<"-">>, call[c].converted_parts)

\* A compound in no dictionary has been converted, one part of it a key
\* whose stored value is not what the rules give (such as си) and another
\* part in no dictionary.
C11_Witness ==
  \E c \in DOMAIN call :
    /\ Done(call[c]) /\ IsCompound(call[c].input)
    /\ lower(call[c].input) \notin DictKeys
    /\ Len(call[c].converted_parts) = Len(call[c].parts)
    /\ \E k \in DOMAIN call[c].parts :
         /\ lower(call[c].parts[k]) \in DictKeys
         /\ call[c].converted_parts[k] = TableValue(lower(call[c].parts[k]))
         /\ call[c].converted_parts[k] # RulePipeline(call[c].parts[k])
    /\ \E k \in DOMAIN call[c].parts :
         /\ lower(call[c].parts[k]) \notin DictKeys
         /\ call[c].converted_parts[k] # <<>>

\* Both classifiers have returned.
Classified(cl) == cl.pc = "classified"

\* (a) the word contains one of ф, в, ц, ч.
HasLoanConsonant(w) == \E k \in DOMAIN w : lower(w)[k] \in {"f", "v", "c", "ch"}

\* (b) the word ends with a listed loanword suffix.
HasLoanSuffix(w) ==
  \E n \in DOMAIN LOANWORD_SUFFIXES : endswith(lower(w), LOANWORD_SUFFIXES[n])

\* The vowel letters of a vowel cluster: а ә е о ө ұ ү і ы и э.
HiatusLetters == {"a", "ae", "e", "o", "oe", "uu", "ue", "ii", "y", "i", "eh"}

\* (c) with иі and іи collapsed, two adjacent vowel letters.
HasHiatus(w) ==
  LET t == replace(replace(lower(w), <<"i", "ii">>, <<"_">>), <<"ii", "i">>, <<"_">>)
  IN  \E k \in 1..(Len(t) - 1) : t[k] \in HiatusLetters /\ t[k + 1] \in HiatusLetters

\* The letters that are vowels (у, ю, я, ё with those of a cluster), the two
\* sign letters, and the consonant letters: all the others.
VowelLetter(x) == lower_char(x) \in HiatusLetters \cup {"u", "yu", "ya", "yo"}
SignLetter(x) == lower_char(x) \in {"soft", "hard"}
ConsonantLetter(x) == x \in RunLetters /\ ~VowelLetter(x) /\ ~SignLetter(x)

\* (d) three consonant letters in a row.
HasThreeConsonants(w) ==
  \E k \in 1..(Len(w) - 2) :
    ConsonantLetter(w[k]) /\ ConsonantLetter(w[k + 1]) /\ ConsonantLetter(w[k + 2])

\* C12 as claimed: is_loanword(word) is true whenever the word (a) contains
\* one of ф, в, ц, ч, or (b) ends with a listed loanword suffix, or (c) after
\* collapsing иі and іи contains two adjacent vowel letters, or (d) contains
\* three consecutive consonant letters.
C12_Claimed ==
  \A c \in DOMAIN call :
    /\ Classified(call[c])
    /\ \/ HasLoanConsonant(call[c].word) \/ HasLoanSuffix(call[c].word)
       \/ HasHiatus(call[c].word) \/ HasThreeConsonants(call[c].word)
    => call[c].loanword

\* C12 as amended: is_loanword(word) is false for every word of the
\* i-initial-native set (in any case), and for every other word it is true
\* whenever (a), (b), (c) or (d) holds, the vowel letters of (c) being
\* а ә е о ө ұ ү і ы и э.
C12_LoanwordUnlessNative ==
  \A c \in DOMAIN call :
    Classified(call[c]) =>
      /\ lower(call[c].word) \in I_INITIAL_NATIVE_WORDS => ~call[c].loanword
      /\ /\ lower(call[c].word) \notin I_INITIAL_NATIVE_WORDS
         /\ \/ HasLoanConsonant(call[c].word) \/ HasLoanSuffix(call[c].word)
            \/ HasHiatus(call[c].word) \/ HasThreeConsonants(call[c].word)
         => call[c].loanword

\* A word outside the i-initial-native set that begins with и and has a
\* vowel cluster, and none of (a), (b), (d), has been classified a loanword
\* (such as иы).
C12_Witness ==
  \E c \in DOMAIN call :
    /\ Classified(call[c]) /\ call[c].loanword
    /\ lower(call[c].word) \notin I_INITIAL_NATIVE_WORDS
    /\ call[c].word # <<>> /\ lower(call[c].word)[1] = "i"
    /\ HasHiatus(call[c].word)
    /\ ~HasLoanConsonant(call[c].word) /\ ~HasLoanSuffix(call[c].word)
    /\ ~HasThreeConsonants(call[c].word)

\* Three consonant letters with no vowel letter between them, the sign
\* letters not counted.
HasThreeConsonantsNoVowelBetween(w) ==
  \E i \in DOMAIN w : \E j \in DOMAIN w : \E k \in DOMAIN w :
    /\ i < j /\ j < k
    /\ ConsonantLetter(w[i]) /\ ConsonantLetter(w[j]) /\ ConsonantLetter(w[k])
    /\ \A n \in i..k : ~VowelLetter(w[n])
    /\ \A n \in i..k : n \notin {i, j, k} => SignLetter(w[n])

\* C13: the consecutive-consonant rule of is_loanword counts consonant
\* letters only: where none of the other rules fires, is_loanword is true
\* only when three consonant letters occur with no vowel letter between
\* them, ь and ъ not counting towards the three.
C13_ConsonantsOnly ==
  \A c \in DOMAIN call :
    /\ Classified(call[c]) /\ call[c].loanword
    /\ ~HasLoanConsonant(call[c].word) /\ ~HasLoanSuffix(call[c].word)
    /\ ~HasHiatus(call[c].word)
    => HasThreeConsonantsNoVowelBetween(call[c].word)

HasFrontSignal(s) == \E k \in DOMAIN s : lower(s)[k] \in {"k", "g"}

\* C17: get_initial_harmony(word) is back for every word that contains қ or
\* ғ, whatever its vowels, also when it contains к/г or is in the i-initial
\* set; and it is front for every word that contains к or г and no қ/ғ,
\* whatever its first vowel.
C17_StrongSignalsFirst ==
  \A c \in DOMAIN call :
    call[c].pc \in {"is_loanword", "classified"} =>
      /\ HasBackSignal(call[c].word) => call[c].initial_harmony = "back"
      /\ HasFrontSignal(call[c].word) /\ ~HasBackSignal(call[c].word)
           => call[c].initial_harmony = "front"

\* A word that begins with a front vowel and has both к and қ (such as ікқ)
\* has been classified back.
C17_Witness ==
  \E c \in DOMAIN call :
    /\ Classified(call[c]) /\ call[c].initial_harmony = "back"
    /\ HasBackSignal(call[c].word) /\ HasFrontSignal(call[c].word)
    /\ lower(call[c].word)[1] \in FRONT_VOWELS

\* C14: for every hyphen-free word that contains к or г (in either case),
\* the output of convert contains no glottal marker, also when the word
\* begins with ө, ү or і or has a front first vowel, and also when the
\* output comes from a dictionary entry.
C14_FrontSignalNoMarker ==
  \A c \in DOMAIN call :
    Done(call[c]) /\ IsWord(call[c].input) /\ HasFrontSignal(call[c].input)
      => ~HasHamza(call[c].out)

\* A word in no dictionary that begins with ө, ү or і and contains к, and is
\* no loanword (such as ік), has been converted by the rules, without a
\* marker.
C14_Witness ==
  \E c \in DOMAIN call :
    /\ Done(call[c]) /\ IsWord(call[c].input) /\ HasFrontSignal(call[c].input)
    /\ lower(call[c].input) \notin DictKeys
    /\ ~is_loanword(converter, call[c].input)
    /\ lower(call[c].input)[1] \in HighFront
    /\ call[c].out # <<>> /\ ~HasHamza(call[c].out)

\* The words C15 speaks of: hyphen-free, in no dictionary, no loanword, not
\* i-initial-native, without к/г.
RuleDecided(w) ==
  /\ IsWord(w) /\ lower(w) \notin DictKeys
  /\ ~is_loanword(converter, w) /\ ~is_i_initial_native(converter, w)
  /\ ~HasFrontSignal(w)

\* C15: for every non-dictionary word that is no loanword, not
\* i-initial-native and without к/г: if the word contains е, the output
\* begins with the marker exactly when the first letter is ө, ү or і, and
\* otherwise contains no marker; if it contains no е, the output begins with
\* the marker exactly when the first letter is ө, ү or і or
\* get_initial_harmony is front, and otherwise contains no marker.
C15_MarkerDecision ==
  \A c \in DOMAIN call :
    Done(call[c]) /\ RuleDecided(call[c].input) =>
      LET w == call[c].input
          first == lower(w)[1] \in HighFront
          marked == IF "e" \in Range(lower(w)) THEN first
                    ELSE first \/ get_initial_harmony(converter, w) = "front"
      IN  IF marked THEN call[c].out # <<>> /\ call[c].out[1] = HAMZA
          ELSE ~HasHamza(call[c].out)

\* A word of that kind with е whose harmony class is front and whose first
\* letter is not ө, ү or і (such as те) has been converted without a marker.
C15_Witness ==
  \E c \in DOMAIN call :
    /\ Done(call[c]) /\ RuleDecided(call[c].input)
    /\ "e" \in Range(lower(call[c].input))
    /\ lower(call[c].input)[1] \notin HighFront
    /\ get_initial_harmony(converter, call[c].input) = "front"
    /\ call[c].out # <<>> /\ ~HasHamza(call[c].out)

\* The number of markers in s.
Markers(s) == Cardinality({k \in DOMAIN s : s[k] = HAMZA})

\* C16: for every word of the i-initial-native set (in any case) the output
\* of convert contains exactly one glottal marker, its first character:
\* apply_hamza_rule puts the marker before a raw target that does not begin
\* with it and returns one that does unchanged, without a second marker; on
\* the raw target convert_word produces for the word it returns convert's
\* output, with one marker, in front.
C16_NativeOneMarker ==
  \A c \in DOMAIN call :
    Len(call[c].returned) >= 1 /\ lower(call[c].word) \in I_INITIAL_NATIVE_WORDS =>
      LET r == call[c].arabic_word
          out == call[c].returned[1]
      IN  /\ out = IF r # <<>> /\ r[1] = HAMZA THEN r ELSE <<HAMZA>> \o r
          /\ r = arabic_result(converter, call[c].word)
               => /\ out = convert(converter, call[c].word)
                  /\ out[1] = HAMZA /\ Markers(out) = 1

\* The rule has been called for a word of the set, in capitals, on a raw
\* target that already begins with the marker, and has returned it as it
\* was.
C16_Witness ==
  \E c \in DOMAIN call :
    /\ Len(call[c].returned) >= 1
    /\ lower(call[c].word) \in I_INITIAL_NATIVE_WORDS
    /\ call[c].word # lower(call[c].word)
    /\ call[c].arabic_word # <<>> /\ call[c].arabic_word[1] = HAMZA
    /\ call[c].returned[1] = call[c].arabic_word
    /\ Markers(call[c].returned[1]) = 1

\* C18: in a non-dictionary word the letter ю is rendered as the single unit
\* ۋ when is_loanword holds for the whole word and as the digraph يۋ
\* otherwise: the word the scan is in is the part convert_word was called
\* on, in no dictionary, the choice is is_loanword of that part alone, and
\* every pass of the loop that is at a ю (in either case) appends the one
\* or the other to the result by that choice.
C18_YuByLoanword ==
  /\ [](\A c \in DOMAIN call :
          call[c].pc \in {"scan", "apply_hamza_rule"} =>
            /\ call[c].word = call[c].parts[Len(call[c].converted_parts) + 1]
            /\ lower(call[c].word) \notin DictKeys
            /\ call[c].loanword = is_loanword(converter, call[c].word))
  /\ [][\A c \in DOMAIN call :
          /\ call[c].pc = "scan" /\ call[c].i <= Len(call[c].word)
          /\ lower_char(call[c].word[call[c].i]) = "yu"
          /\ call'[c] # call[c]
          => call'[c].result =
               call[c].result \o (IF is_loanword(converter, call[c].word)
                                  THEN <<"ar_ve">> ELSE <<"ar_yeh", "ar_ve">>)]_vars

\* A compound has been converted in which a loanword part and a part that
\* is no loanword both have a ю (such as фю-ю): the first without the ي,
\* the second with it.
C18_Witness ==
  \E c \in DOMAIN call :
    /\ Done(call[c]) /\ IsCompound(call[c].input)
    /\ Len(call[c].converted_parts) = Len(call[c].parts)
    /\ \E j \in DOMAIN call[c].parts : \E k \in DOMAIN call[c].parts :
         /\ "yu" \in Range(lower(call[c].parts[j]))
         /\ "yu" \in Range(lower(call[c].parts[k]))
         /\ lower(call[c].parts[j]) \notin DictKeys
         /\ lower(call[c].parts[k]) \notin DictKeys
         /\ is_loanword(converter, call[c].parts[j])
         /\ ~is_loanword(converter, call[c].parts[k])
         /\ "ar_ve" \in Range(call[c].converted_parts[j])
         /\ "ar_yeh" \notin Range(call[c].converted_parts[j])
         /\ "ar_yeh" \in Range(call[c].converted_parts[k])

\* s with every marker removed.
Unmarked(s) == SelectSeq(s, LAMBDA x : x # HAMZA)

\* The outputs of calls c and d are equal once every marker is removed.
SameSpelling(c, d) == Unmarked(call[c].out) = Unmarked(call[d].out)

\* Calls c and d have returned, on two words in no dictionary that differ
\* only in letters mapping to the same target unit.
PairConverted(c, d) ==
  /\ Done(call[c]) /\ Done(call[d])
  /\ IsWord(call[c].input) /\ IsWord(call[d].input)
  /\ lower(call[c].input) \notin DictKeys /\ lower(call[d].input) \notin DictKeys
  /\ SameUnits(call[c].input, call[d].input)

\* The output of a returned call on a word in no dictionary is the result
\* of its scan, with or without a marker in front.
MarkerOnly(c) ==
  Done(call[c]) /\ IsWord(call[c].input) /\ lower(call[c].input) \notin DictKeys
    => call[c].out \in {call[c].result, <<HAMZA>> \o call[c].result}

\* C19 as claimed: the spelling of a non-dictionary word does not depend on
\* its harmony class: two words that differ only in letters mapping to the
\* same target unit get outputs that are equal once every marker is
\* removed, and the harmony class changes nothing but the presence of the
\* leading marker.
C19_Claimed ==
  /\ \A c \in DOMAIN call : \A d \in DOMAIN call :
       PairConverted(c, d) => SameSpelling(c, d)
  /\ \A c \in DOMAIN call : MarkerOnly(c)

\* C19 as amended: two non-dictionary words that differ only in letters
\* mapping to the same target unit and that is_loanword classifies alike
\* get outputs that are equal once every marker is removed, and the harmony
\* class changes nothing but the presence of the leading marker.
C19_SpellingByUnits ==
  /\ \A c \in DOMAIN call : \A d \in DOMAIN call :
       /\ PairConverted(c, d)
       /\ is_loanword(converter, call[c].input) = is_loanword(converter, call[d].input)
       => SameSpelling(c, d)
  /\ \A c \in DOMAIN call : MarkerOnly(c)

\* Two words of different harmony classes, with an и, that differ in one
\* letter of the same target unit (such as ыюи and іюи) have been
\* converted: the outputs differ by the leading marker alone.
C19_Witness ==
  \E c \in DOMAIN call : \E d \in DOMAIN call :
    /\ PairConverted(c, d)
    /\ call[c].input # call[d].input
    /\ "i" \in Range(call[c].input)
    /\ get_initial_harmony(converter, call[c].input) = "front"
    /\ get_initial_harmony(converter, call[d].input) = "back"
    /\ is_loanword(converter, call[c].input) = is_loanword(converter, call[d].input)
    /\ call[c].out = <<HAMZA>> \o call[d].out

\* s has no letter of the source alphabet: the character class of the run
\* pattern, both cases, ь and ъ included.
NoSourceLetter(s) == Range(s) \cap RunLetters = {}

\* C20: for every input string, the output of convert contains no letter of
\* the source alphabet: every such letter is mapped, expanded or dropped by
\* the scan, and every value of the two dictionaries is free of source
\* letters.
C20_NoSourceLetter ==
  /\ \A c \in DOMAIN call : Done(call[c]) => NoSourceLetter(call[c].out)
  /\ \A c \in DOMAIN call :
       call[c].pc \in {"scan", "apply_hamza_rule"} => NoSourceLetter(call[c].result)
  /\ \A k \in DOMAIN converter.PROPER_NOUNS : NoSourceLetter(converter.PROPER_NOUNS[k])
  /\ \A k \in DOMAIN converter.COMMON_WORDS : NoSourceLetter(converter.COMMON_WORDS[k])

\* A word in no dictionary with a capital letter and a letter the scan
\* expands (such as Ъц or Щя) has been converted.
C20_Witness ==
  \E c \in DOMAIN call :
    /\ Done(call[c]) /\ IsWord(call[c].input)
    /\ lower(call[c].input) \notin DictKeys
    /\ call[c].input # lower(call[c].input)
    /\ \E k \in DOMAIN call[c].input : lower_char(call[c].input[k]) \in {"c", "shch", "yo"}
    /\ Len(call[c].out) >= 2 /\ NoSourceLetter(call[c].out)

\* The punctuation marks convert substitutes.
SubstitutedMarks == {",", ";", "?"}

\* C21: convert is idempotent on every input: convert(convert(s)) =
\* convert(s); the output of the first pass has no letter of a run and no
\* punctuation mark that convert substitutes.
C21_Idempotent ==
  \A c \in DOMAIN call :
    /\ Len(call[c].returned) >= 1
         => /\ NoSourceLetter(call[c].returned[1])
            /\ Range(call[c].returned[1]) \cap SubstitutedMarks = {}
    /\ Len(call[c].returned) = 2 => call[c].returned[2] = call[c].returned[1]

\* A text with a run and a mark convert substitutes has been converted
\* twice: the first pass changed it, the second returned the same.
C21_Witness ==
  \E c \in DOMAIN call :
    /\ Len(call[c].returned) = 2
    /\ Range(call[c].text) \cap RunLetters # {}
    /\ Range(call[c].text) \cap SubstitutedMarks # {}
    /\ call[c].returned[1] # call[c].text
    /\ call[c].returned[2] = call[c].returned[1]

\* C22: the output of convert does not depend on the case of the letters of
\* the source script: convert returns for s what it returns for s in lower
\* case, and so for s in capitals, capitalized, and with every other letter
\* a capital; this for dictionary words, loanwords, every harmony class and
\* every rule of the marker cascade.
C22_CaseInsensitive ==
  \A c \in DOMAIN call :
    Done(call[c]) =>
      /\ call[c].out = convert(converter, lower(call[c].input))
      /\ \A v \in CaseVariants(call[c].input) : call[c].out = convert(converter, v)

\* A loanword in no dictionary with ю, written in mixed case, has been
\* converted (such as Фю written фЮ or Қфю).
C22_Witness ==
  \E c \in DOMAIN call :
    /\ Done(call[c]) /\ IsWord(call[c].input)
    /\ call[c].input # lower(call[c].input)
    /\ call[c].input # upper(call[c].input)
    /\ lower(call[c].input) \notin DictKeys
    /\ is_loanword(converter, call[c].input)
    /\ "yu" \in Range(lower(call[c].input))
    /\ call[c].out # <<>>
    /\ call[c].out = convert(converter, upper(call[c].input))

\* The converter with an empty soft-prefix set.
NoSoftPrefixes == [converter EXCEPT !.SOFT_PREFIXES_WITH_HARD_ROOT = <<>>]

\* C23: the soft-prefix-with-hard-root override of the classifier never
\* changes the result of convert: for every input convert returns what a
\* converter with an empty soft-prefix set returns; every listed prefix has
\* a letter that an earlier rule decides on: қ/ғ or к/г (the classifier's
\* first two rules) or е (rule 4 of the marker cascade).
C23_PrefixesNeverDecide ==
  /\ \A c \in DOMAIN call :
       Done(call[c]) => call[c].out = convert(NoSoftPrefixes, call[c].input)
  /\ \A n \in DOMAIN converter.SOFT_PREFIXES_WITH_HARD_ROOT :
       Range(converter.SOFT_PREFIXES_WITH_HARD_ROOT[n]) \cap {"q", "gh", "k", "g", "e"} # {}

\* A word in no dictionary that begins with a listed prefix and whose
\* harmony class the override changes (such as беса: back with the prefix
\* set, front without) has been converted.
C23_Witness ==
  \E c \in DOMAIN call :
    /\ Done(call[c]) /\ IsWord(call[c].input)
    /\ lower(call[c].input) \notin DictKeys
    /\ \E n \in DOMAIN SOFT_PREFIXES_WITH_HARD_ROOT :
         startswith(lower(call[c].input), SOFT_PREFIXES_WITH_HARD_ROOT[n])
    /\ get_initial_harmony(converter, call[c].input)
         # get_initial_harmony(NoSoftPrefixes, call[c].input)
    /\ call[c].out # <<>>

\* s has at most one marker, and if one, in front.
AtMostLeadingMarker(s) == Markers(s) <= 1 /\ (HasHamza(s) => s[1] = HAMZA)

\* C24: for every hyphen-free run, the output of convert contains at most
\* one glottal marker and, when it contains one, the marker is the first
\* character of the run's output; this for rule-generated outputs and for
\* every value of the two dictionaries.
C24_AtMostLeadingMarker ==
  /\ \A c \in DOMAIN call :
       Done(call[c]) /\ IsWord(call[c].input) => AtMostLeadingMarker(call[c].out)
  /\ \A k \in DOMAIN converter.PROPER_NOUNS : AtMostLeadingMarker(converter.PROPER_NOUNS[k])
  /\ \A k \in DOMAIN converter.COMMON_WORDS : AtMostLeadingMarker(converter.COMMON_WORDS[k])

\* A word in no dictionary with two or more letters of ө, ү, і (such as өті)
\* has been converted by the rules: one marker, in front.
C24_Witness ==
  \E c \in DOMAIN call :
    /\ Done(call[c]) /\ IsWord(call[c].input)
    /\ lower(call[c].input) \notin DictKeys
    /\ Cardinality({k \in DOMAIN call[c].input : lower(call[c].input)[k] \in HighFront}) >= 2
    /\ Markers(call[c].out) = 1 /\ call[c].out[1] = HAMZA /\ Len(call[c].out) >= 3

\* C25: every chunk split_text(text, max_length) returns is non-empty and at
\* most max_length characters long, whatever the text.
C25_ChunksWithinMaxLength ==
  \A c \in DOMAIN call :
    call[c].pc = "chunks" =>
      \A n \in DOMAIN call[c].chunks :
        /\ call[c].chunks[n] # <<>>
        /\ Len(call[c].chunks[n]) <= call[c].max_length

=============================================================================
